---- MODULE Spec2Model ----
(***************************************************************************)
(* Wake/sleep memory pipeline of drift-agents (shared/memory_wrapper.py).  *)
(*                                                                         *)
(* Text is modelled at the character level: a string is a tuple of         *)
(* one-character strings, so that Python's `in`, slicing, lower() and      *)
(* len() are computed as the code computes them.  The state keeps short    *)
(* names of texts (the keys of TEXT); the operators below expand them.     *)
(***************************************************************************)
EXTENDS Integers, Sequences, FiniteSets, TLC

VARIABLES
    memories,         \* <schema>.memories:        [agent -> [id -> row]]
    co_occurrences,   \* <schema>.co_occurrences:  [agent -> set of rows]
    kv,               \* <schema> KV slot '.wake_retrieved_ids': [agent -> value]
    q_value_history,  \* <schema>.q_value_history: [agent -> sequence of rows]
    sessions,         \* <schema>.sessions:        [agent -> sequence of rows]
    agent_registry,   \* shared.agent_registry.last_active: [agent -> time]
    shared,           \* shared.memories, in insertion (created) order
    pc,               \* position of the running memory_wrapper command
    run,              \* locals of the running / last command
    exit_status,      \* exit status of the last finished command ("none" before)
    preamble,         \* lines of the last wake's preamble
    clock,            \* logical NOW(): the number of commands started
    nfaults,          \* failures injected so far
    ex,               \* transcript extractor: input and output
    bot               \* discord_bot: an agent's done.jsonl and check_completions

vars == <<memories, co_occurrences, kv, q_value_history, sessions,
          agent_registry, shared, pc, run, exit_status, preamble, clock,
          nfaults, ex, bot>>

storeVars == <<memories, co_occurrences, kv, q_value_history, sessions,
               agent_registry>>

-----------------------------------------------------------------------------
(* Python string primitives on character tuples.                           *)

UPPER == <<"A","B","C","D","E","F","G","H","I","J","K","L","M","N","O","P","Q","R","S","T","U","V","W","X","Y","Z">>
LOWER == <<"a","b","c","d","e","f","g","h","i","j","k","l","m","n","o","p","q","r","s","t","u","v","w","x","y","z">>

\* The lowercase letter of each uppercase letter
LowerOf == [c \in {UPPER[i] : i \in DOMAIN UPPER} |->
               LOWER[CHOOSE i \in DOMAIN UPPER : UPPER[i] = c]]

\* str.lower() of one character
LowerChar(c) == IF c \in DOMAIN LowerOf THEN LowerOf[c] ELSE c

\* str.lower()
Lower(s) == <<>> \o [i \in 1..Len(s) |-> LowerChar(s[i])]

\* `sub in s`
Contains(sub, s) ==
    \E i \in 0..(Len(s) - Len(sub)) :
        \A j \in 1..Len(sub) : s[i + j] = sub[j]

\* s.startswith(p)
StartsWith(s, p) ==
    /\ Len(p) <= Len(s)
    /\ \A j \in 1..Len(p) : s[j] = p[j]

Min(a, b) == IF a <= b THEN a ELSE b
Max(a, b) == IF a >= b THEN a ELSE b

\* A Python slice bound i of a sequence of length n, as an offset in 0..n
SliceBound(i, n) == IF i < 0 THEN Max(n + i, 0) ELSE Min(i, n)

\* s[lo:hi]
PySlice(s, lo, hi) ==
    LET a == SliceBound(lo, Len(s))
        b == SliceBound(hi, Len(s))
    IN  IF b <= a THEN <<>> ELSE <<>> \o [i \in 1..(b - a) |-> s[a + i]]

\* s[:n] and s[lo:]
PyPrefix(s, n) == PySlice(s, 0, n)
PySuffix(s, lo) == PySlice(s, lo, Len(s))

\* sep.join(parts)
RECURSIVE Join(_, _)
Join(sep, parts) ==
    IF Len(parts) = 0 THEN <<>>
    ELSE IF Len(parts) = 1 THEN parts[1]
    ELSE parts[1] \o sep \o Join(sep, Tail(parts))

SeqToSet(s) == {s[i] : i \in DOMAIN s}

-----------------------------------------------------------------------------
(* Program constants.                                                      *)

\* AGENT_SCHEMAS: agent name -> schema (the identity on the four agents)
AGENT_SCHEMAS == {"max", "beth", "susan", "debater"}

\* The keys of AGENT_SCHEMAS as the substrings `a in text` looks for
AgentChars ==
       "max"     :> <<"m","a","x">>
    @@ "beth"    :> <<"b","e","t","h">>
    @@ "susan"   :> <<"s","u","s","a","n">>
    @@ "debater" :> <<"d","e","b","a","t","e","r">>

AGENT_DISPLAY_NAMES ==
       "max"     :> <<"M","a","x"," ","A","n","v","i","l">>
    @@ "beth"    :> <<"B","e","t","h","a","n","y"," ","F","i","n","k","e","l">>
    @@ "susan"   :> <<"S","u","s","a","n"," ","C","a","s","i","o","d","e","g","a">>
    @@ "debater" :> <<"T","h","e"," ","G","r","e","a","t"," ","D","e","b","a","t","e","r">>

SHARED_KEYWORDS ==
    { <<"c","l","a","w","b","r">>,
      <<"p","l","a","t","f","o","r","m"," ","u","p","d","a","t","e">>,
      <<"c","o","m","m","u","n","i","t","y">>,
      <<"a","p","i"," ","c","h","a","n","g","e">>,
      <<"e","n","d","p","o","i","n","t">>,
      <<"a","l","l"," ","a","g","e","n","t","s">>,
      <<"e","v","e","r","y","o","n","e">> }

DEBATE_OPINION_KEYWORDS ==
    { <<"v","o","t","e","d">>,
      <<"v","o","t","e"," ","f","o","r">>,
      <<"c","o","n"," ","w","i","n","s">>,
      <<"p","r","o"," ","w","i","n","s">>,
      <<"c","o","n"," ","w","o","n">>,
      <<"p","r","o"," ","w","o","n">>,
      <<"s","c","o","p","e"," ","r","e","t","r","e","a","t">>,
      <<"r","e","b","u","t","t","a","l">>,
      <<"o","p","e","n","i","n","g"," ","a","r","g","u","m","e","n","t">>,
      <<"d","e","b","a","t","e"," ","a","n","a","l","y","s","i","s">>,
      <<"d","e","b","a","t","e"," ","v","o","t","e">>,
      <<"j","u","d","g","i","n","g">>,
      <<"r","u","l","i","n","g">>,
      <<"v","e","r","d","i","c","t">>,
      <<"d","e","b","a","t","e">>,
      <<"d","e","b","a","t","i","n","g">>,
      <<"d","e","f","e","n","s","i","b","l","e"," ","p","o","s","i","t","i","o","n">>,
      <<"d","e","f","i","n","i","t","i","o","n","a","l"," ","d","r","i","f","t">>,
      <<"a","r","g","u","m","e","n","t","a","t","i","v","e">> }

LESSON_SHARE_KEYWORDS ==
    { <<"a","p","i">>,
      <<"e","n","d","p","o","i","n","t">>,
      <<"c","l","a","w","b","r">>,
      <<"c","h","a","r","a","c","t","e","r"," ","l","i","m","i","t">>,
      <<"f","o","r","m","a","t">>,
      <<"p","l","a","t","f","o","r","m">>,
      <<"b","u","g">>,
      <<"e","r","r","o","r">>,
      <<"w","o","r","k","a","r","o","u","n","d">>,
      <<"c","o","n","f","i","g">> }

-----------------------------------------------------------------------------
(* Inputs: the texts the summariser's parsed record is drawn from.         *)

TEXT ==
       "voted"      :> <<"I"," ","v","o","t","e","d"," ","C","O","N">>
    @@ "api500"     :> <<"A","P","I"," ","e","n","d","p","o","i","n","t"," ","X"," ","r","e","t","u","r","n","s"," ","5","0","0">>
    @@ "deploy"     :> <<"D","e","p","l","o","y"," ","f","i","x">>
    @@ "queue"      :> <<"Q","u","e","u","e"," ","s","t","u","c","k">>
    @@ "askbeth"    :> <<"a","s","k"," ","b","e","t","h">>
    @@ "askdebater" :> <<"a","s","k"," ","d","e","b","a","t","e","r">>
    @@ "verdictapi" :> <<"V","e","r","d","i","c","t",":"," ","A","P","I"," ","c","h","a","n","g","e">>
    @@ "checkapi"   :> <<"A","l","w","a","y","s"," ","c","h","e","c","k"," ","t","h","e"," ","A","P","I"," ","s","t","a","t","u","s">>
    @@ "checkcfg"   :> <<"A","l","w","a","y","s"," ","c","h","e","c","k"," ","t","h","e"," ","c","o","n","f","i","g">>
    @@ "port"       :> <<"P","o","r","t"," ","i","s"," ","5","4","3","3">>
    @@ "askmax"     :> <<"a","s","k"," ","m","a","x">>
    @@ "asksusan"   :> <<"S","u","s","a","n"," ","k","n","o","w","s">>

TextNames == DOMAIN TEXT

Thread(name, summary, status) ==
    [name |-> name, summary |-> summary, status |-> status]

Parsed(threads, lessons, facts) ==
    [threads |-> threads, lessons |-> lessons, facts |-> facts]

EmptyParsed == Parsed(<<>>, <<>>, <<>>)

-----------------------------------------------------------------------------
(* _cross_pollinate: which items of a parsed record go to shared.memories. *)

\* A plausible slip: all() for any()
is_debate_opinion_all(text) ==
    LET t == Lower(text)
    IN  \A kw \in DEBATE_OPINION_KEYWORDS : Contains(kw, t)

\* _is_debate_opinion
is_debate_opinion(text) ==
    LET t == Lower(text)
    IN  \E kw \in DEBATE_OPINION_KEYWORDS : Contains(kw, t)

\* other_agents = {a for a in AGENT_SCHEMAS if a != agent}
other_agents(agent) == AGENT_SCHEMAS \ {agent}

\* text = (thread.get('summary', '') + ' ' + thread.get('name', '')).lower()
ThreadCheckText(thread) ==
    Lower(TEXT[thread.summary] \o <<" ">> \o TEXT[thread.name])

\* any(kw in text for kw in SHARED_KEYWORDS) or any(a in text for a in other_agents)
Whitelisted(agent, text) ==
    \/ \E kw \in SHARED_KEYWORDS : Contains(kw, text)
    \/ \E a \in other_agents(agent) : Contains(AgentChars[a], text)

ThreadShared(agent, thread) ==
    LET text == ThreadCheckText(thread)
    IN  IF is_debate_opinion(text) THEN FALSE ELSE Whitelisted(agent, text)

\* A plausible slip: the whitelist consulted before the block filter
LessonShared_WhitelistFirst(lesson) ==
    LET lesson_lower == Lower(TEXT[lesson])
    IN  IF \E kw \in LESSON_SHARE_KEYWORDS : Contains(kw, lesson_lower)
        THEN TRUE
        ELSE FALSE

LessonShared(lesson) ==
    LET lesson_lower == Lower(TEXT[lesson])
    IN  IF is_debate_opinion(lesson_lower) THEN FALSE
        ELSE \E kw \in LESSON_SHARE_KEYWORDS : Contains(kw, lesson_lower)

FactShared(agent, fact) ==
    LET text == Lower(TEXT[fact])
    IN  IF is_debate_opinion(text) THEN FALSE ELSE Whitelisted(agent, text)

\* One element of items_to_share, kept by its parts; SharedContent renders it
ThreadItem(thread) == [kind |-> "Thread", name |-> thread.name, text |-> thread.summary]
LessonItem(lesson) == [kind |-> "Lesson", name |-> "", text |-> lesson]
FactItem(fact)     == [kind |-> "Fact",   name |-> "", text |-> fact]

\* items_to_share, in the order the three loops append
items_to_share(agent, parsed) ==
    LET KeepThread(th) == ThreadShared(agent, th)
        KeepFact(f)    == FactShared(agent, f)
        threads == SelectSeq(parsed.threads, KeepThread)
        lessons == SelectSeq(parsed.lessons, LessonShared)
        facts   == SelectSeq(parsed.facts, KeepFact)
    IN  [i \in 1..Len(threads) |-> ThreadItem(threads[i])]
        \o [i \in 1..Len(lessons) |-> LessonItem(lessons[i])]
        \o [i \in 1..Len(facts) |-> FactItem(facts[i])]

\* The text of an item after the author prefix:
\*   "Thread: {name}. {summary}" | "Lesson: {lesson}" | "Fact: {fact}"
ItemBody(item) ==
    CASE item.kind = "Thread" ->
            <<"T","h","r","e","a","d",":"," ">> \o TEXT[item.name]
            \o <<"."," ">> \o TEXT[item.text]
      [] item.kind = "Lesson" ->
            <<"L","e","s","s","o","n",":"," ">> \o TEXT[item.text]
      [] item.kind = "Fact" ->
            <<"F","a","c","t",":"," ">> \o TEXT[item.text]

\* "[{AGENT_DISPLAY_NAMES.get(agent, agent)}] "
AuthorPrefix(agent) == <<"[">> \o AGENT_DISPLAY_NAMES[agent] \o <<"]"," ">>

\* A row of shared.memories: created_by and the parts of its content
SharedRow(agent, item) == [created_by |-> agent, item |-> item]

\* The content column of a shared row, as stored
SharedContent(row) == AuthorPrefix(row.created_by) \o ItemBody(row.item)

\* The INSERT loop of _cross_pollinate
SharedRows(agent, parsed) ==
    LET items == items_to_share(agent, parsed)
    IN  [i \in 1..Len(items) |-> SharedRow(agent, items[i])]

-----------------------------------------------------------------------------
(* Transcript extractor: _extract_from_log and _extract_from_jsonl.        *)

WHITESPACE == {" ", "\n", "\t", "\r"}

\* str.strip()
Strip(s) ==
    LET keep == {i \in 1..Len(s) : s[i] \notin WHITESPACE}
    IN  IF keep = {} THEN <<>>
        ELSE LET first == CHOOSE i \in keep : \A k \in keep : i <= k
                 last  == CHOOSE i \in keep : \A k \in keep : i >= k
             IN  <<>> \o [i \in 1..(last - first + 1) |-> s[first + i - 1]]

\* The noise prefixes of the plain-text path.  The three symbol prefixes
\* (hourglass U+23F3, check mark U+2713, high voltage U+26A1) and the rule
\* of three U+2500 characters are written with one token per character.
NOISE_PREFIXES ==
    { <<"T","o","o","l","U","s","e",":">>,
      <<"T","o","o","l","R","e","s","u","l","t",":">>,
      <<"U+23F3">>, <<"U+2713">>, <<"U+26A1">>,
      <<"U+2500","U+2500","U+2500">>,
      <<"C","o","s","t",":">>,
      <<"D","u","r","a","t","i","o","n",":">>,
      <<"I","n","p","u","t"," ","t","o","k","e","n","s",":">>,
      <<"O","u","t","p","u","t"," ","t","o","k","e","n","s",":">>
    }

MARKER_MIDDLE == <<"\n","\n","[",".",".","."," ","m","i","d","d","l","e"," ","o","f"," ","s","e","s","s","i","o","n"," ",".",".",".","]","\n","\n">>
MARKER_LATER  == <<"\n","\n","[",".",".","."," ","l","a","t","e","r"," ",".",".",".","]","\n","\n">>
MARKER_JSONL  == <<"\n","\n","[",".",".",".","]","\n","\n">>

\* A line of a transcript file: its characters and what json.loads makes of
\* it (NotJson when json.loads raises).
NotJson == [type |-> "NotJson", content |-> <<>>]
Block(type, text) == [type |-> type, text |-> text]
Entry(type, content) == [type |-> type, content |-> content]

JSON_OPEN  == <<"{","\"","t","y","p","e","\"",":","\"">>
JSON_MID   == <<"\"",",","\"","m","e","s","s","a","g","e","\"",":","{","\"","c","o","n","t","e","n","t","\"",":","[","{","\"","t","y","p","e","\"",":","\"","t","e","x","t","\"",",","\"","t","e","x","t","\"",":","\"">>
JSON_CLOSE == <<"\"","}","]","}","}">>

\* {"type":"<type>","message":{"content":[{"type":"text","text":"<text>"}]}}
JsonLine(type, text) ==
    [raw   |-> JSON_OPEN \o type \o JSON_MID \o text \o JSON_CLOSE,
     entry |-> Entry(type, <<Block("text", text)>>)]

PlainLine(raw) == [raw |-> raw, entry |-> NotJson]

ASSISTANT == <<"a","s","s","i","s","t","a","n","t">>
HUMAN     == <<"h","u","m","a","n">>
SYSTEM_REMINDER == <<"<","s","y","s","t","e","m","-","r","e","m","i","n","d","e","r",">">>

\* Inputs: the lines a transcript file is made of
LINES ==
       "ok"     :> PlainLine(<<"o","k">>)
    @@ "hello"  :> PlainLine(<<" "," ","h","e","l","l","o"," ","w","o","r","l","d">>)
    @@ "tool"   :> PlainLine(<<"T","o","o","l","U","s","e",":"," ","l","s">>)
    @@ "cost"   :> PlainLine(<<"C","o","s","t",":"," ","1">>)
    @@ "blank"  :> PlainLine(<<" "," ">>)
    @@ "asst"   :> JsonLine(ASSISTANT, <<"d","o","n","e">>)
    @@ "human"  :> JsonLine(HUMAN, <<"h","i">>)
    @@ "sysrem" :> JsonLine(HUMAN, SYSTEM_REMINDER \o <<"x">>)

LineNames == DOMAIN LINES

\* Path(log_path).read_text(): the lines joined by newlines
FileContent(lines) == Join(<<"\n">>, [i \in 1..Len(lines) |-> LINES[lines[i]].raw])

\* The proportional sample both paths take of a text longer than max_chars
Sample(text, max_chars, marker1, marker2) ==
    LET chunk     == max_chars \div 5
        start     == PyPrefix(text, chunk * 2)
        mid_point == Len(text) \div 2
        middle    == PySlice(text, mid_point - chunk, mid_point + chunk)
        end       == PySuffix(text, -(chunk * 2))
    IN  start \o marker1 \o middle \o marker2 \o end

\* The texts one JSONL line contributes
EntryTexts(line) ==
    LET raw   == Strip(LINES[line].raw)
        entry == LINES[line].entry
        IsText(block) == block.type = "text"
        IsUserText(block) ==
            block.type = "text" /\ ~StartsWith(block.text, SYSTEM_REMINDER)
        blocks == entry.content
    IN  IF raw = <<>> \/ entry = NotJson THEN <<>>
        ELSE IF entry.type = ASSISTANT THEN
            LET kept == SelectSeq(blocks, IsText)
            IN  [i \in 1..Len(kept) |->
                    <<"[","A","S","S","I","S","T","A","N","T","]"," ">> \o kept[i].text]
        ELSE IF entry.type = HUMAN THEN
            LET kept == SelectSeq(blocks, IsUserText)
            IN  [i \in 1..Len(kept) |->
                    <<"[","U","S","E","R","]"," ">> \o kept[i].text]
        ELSE <<>>

RECURSIVE JsonlTexts(_)
JsonlTexts(lines) ==
    IF Len(lines) = 0 THEN <<>>
    ELSE EntryTexts(Head(lines)) \o JsonlTexts(Tail(lines))

extract_from_jsonl(lines, max_chars) ==
    LET full == Join(<<"\n">>, JsonlTexts(lines))
    IN  IF Len(full) <= max_chars THEN full
        ELSE Sample(full, max_chars, MARKER_JSONL, MARKER_JSONL)

\* The lines of the plain-text path that survive the noise filter
Meaningful(lines) ==
    LET stripped == [i \in 1..Len(lines) |-> Strip(LINES[lines[i]].raw)]
        Keep(line) ==
            /\ line # <<>>
            /\ ~\E p \in NOISE_PREFIXES : StartsWith(line, p)
    IN  SelectSeq(stripped, Keep)

\* content.strip().startswith('{')
IsJsonl(lines) == StartsWith(Strip(FileContent(lines)), <<"{">>)

extract_from_log(lines, max_chars) ==
    IF IsJsonl(lines) THEN extract_from_jsonl(lines, max_chars)
    ELSE LET text == Join(<<"\n">>, Meaningful(lines))
         IN  IF Len(text) <= max_chars THEN text
             ELSE Sample(text, max_chars, MARKER_MIDDLE, MARKER_LATER)

\* The length of the text before sampling, and of the markers inserted
ExtractedLen(lines) ==
    IF IsJsonl(lines) THEN Len(Join(<<"\n">>, JsonlTexts(lines)))
    ELSE Len(Join(<<"\n">>, Meaningful(lines)))

MarkersLen(lines, max_chars) ==
    IF ExtractedLen(lines) <= max_chars THEN 0
    ELSE IF IsJsonl(lines) THEN Len(MARKER_JSONL) + Len(MARKER_JSONL)
    ELSE Len(MARKER_MIDDLE) + Len(MARKER_LATER)

-----------------------------------------------------------------------------
(* Bounds of the model.                                                    *)

MaxCmds == 3          \* commands (wake, sleep) started in one behaviour
MaxFaults == 1        \* storage / module failures injected in one behaviour
MaxLines == 2         \* lines of a transcript given to the extractor
MaxMaxChars == 12     \* largest max_chars given to the extractor
MaxShareSleeps == 2   \* sleeps of the share-only specification

\* The agents whose commands the pipeline specification runs
RunAgents == {"max", "debater"}

-----------------------------------------------------------------------------
(* Values.  Weights, freshness and Q-values are fixed-point, in            *)
(* thousandths.  Times are values of clock (1, 2, ...); a NULL time and a  *)
(* session_id of None are 0, as in `session_id or 0`.                      *)

DEFAULT_Q == 500                \* q_value column default
REWARD_DOWNSTREAM == 700
REWARD_DEAD_END == 100
ALPHA_NUM == 3                  \* alpha = ALPHA_NUM / ALPHA_DEN
ALPHA_DEN == 10
DECAY_NUM == 95                 \* gamma = DECAY_NUM / DECAY_DEN
DECAY_DEN == 100
FRESHNESS_FLOOR == 100
PROMOTE_THRESHOLD == 3

MIN_SESSION_CHARS == 50         \* len(session_text) < 50: too short
MIN_RAW_OUTPUT == 30            \* len(raw_output) < 30: no usable output
RAW_EXCERPT_LIMIT == 1200       \* len(session_text) > 1200: excerpt
RAW_EXCERPT_PART == 500
RECENT_LIMIT == 5
CORE_LIMIT == 3
LESSON_LIMIT == 3
SHARED_LIMIT == 3
PREVIEW_LEN == 150
DEDUP_LEN == 50

SESSION_DATE == <<"2","0","2","6","-","1","1","-","0","3">>

\* update_q of q_value_engine: clamp(q + alpha * (reward - q), 0, 1)
update_q(old_q, reward) ==
    LET q == old_q + ((ALPHA_NUM * (reward - old_q)) \div ALPHA_DEN)
    IN  Max(0, Min(1000, q))

\* Inputs: what the summariser's output parses to
ParsedChoices ==
    { Parsed(<<Thread("deploy", "voted", "completed"),
               Thread("queue", "askbeth", "blocked")>>,
             <<"api500">>, <<"port">>),
      Parsed(<<>>, <<"checkapi", "checkcfg">>, <<>>),
      Parsed(<<Thread("port", "checkcfg", "in-progress")>>, <<>>, <<"askbeth">>),
      EmptyParsed }

\* Inputs: len(session_text) after extraction
TextLens == {0, 49, 50, 1200, 1201}

NumItems(parsed) == Len(parsed.threads) + Len(parsed.lessons) + Len(parsed.facts)

\* any(parsed.values())
AnyParsed(parsed) == NumItems(parsed) > 0

-----------------------------------------------------------------------------
(* Memory rows.  A row keeps the parts its content was formatted from;     *)
(* Content renders the content column.  Ids are numbered in insertion      *)
(* order within a namespace (gen_id draws a fresh random id), so id order  *)
(* is the order of the created column.                                     *)

MemoryRow_Core(kind, name, text, status, len, tags, emotional_weight, importance) ==
    [type |-> "core", kind |-> kind, name |-> name, text |-> text,
     status |-> status, len |-> len, tags |-> tags,
     emotional_weight |-> emotional_weight, importance |-> importance,
     freshness |-> 1000, q_value |-> 500, recall_count |-> 0,
     sessions_since_recall |-> 0, last_recalled |-> 0,
     embedded |-> FALSE]

MemoryRow(kind, name, text, status, len, tags, emotional_weight, importance) ==
    [type |-> "active", kind |-> kind, name |-> name, text |-> text,
     status |-> status, len |-> len, tags |-> tags,
     emotional_weight |-> emotional_weight, importance |-> importance,
     freshness |-> 1000, q_value |-> DEFAULT_Q, recall_count |-> 0,
     sessions_since_recall |-> 0, last_recalled |-> 0,
     embedded |-> FALSE]

\* A plausible slip: every thread given the default weight
ThreadEmotion_Default(status) == 500

\* emotion = {'completed': 0.65, 'blocked': 0.3, 'in-progress': 0.5}.get(status, 0.5)
ThreadEmotion(status) ==
    CASE status = "completed" -> 650
      [] status = "blocked" -> 300
      [] status = "in-progress" -> 500
      [] OTHER -> 500

SessionTag == "session-2026-11-03"

ThreadMemory(thread) ==
    MemoryRow("thread", thread.name, thread.summary, thread.status, 0,
              {"session-summary", "thread", SessionTag, "thread-" \o thread.status},
              ThreadEmotion(thread.status), 500)

LessonMemory(lesson) ==
    MemoryRow("lesson", "", lesson, "", 0,
              {"session-summary", "lesson", SessionTag, "heuristic"}, 600, 600)

FactMemory(fact) ==
    MemoryRow("fact", "", fact, "", 0,
              {"session-summary", "key-fact", SessionTag, "procedural"}, 500, 500)

\* A plausible slip: the fallback row given the weights of a parsed lesson
RawMemory_ParsedWeights(len) ==
    MemoryRow("raw", "", "", "", len,
              {"session-summary", "raw-excerpt", SessionTag}, 500, 500)

RawMemory(len) ==
    MemoryRow("raw", "", "", "", len,
              {"session-summary", "raw-excerpt", SessionTag}, 300, 300)

\* A plausible slip: the loop over the facts left out
ItemsToStore_NoFacts(parsed) ==
    [i \in 1..Len(parsed.threads) |-> ThreadMemory(parsed.threads[i])]
    \o [i \in 1..Len(parsed.lessons) |-> LessonMemory(parsed.lessons[i])]

\* The memories _store_parsed_memories inserts, in the order of its loops
ItemsToStore(parsed) ==
    [i \in 1..Len(parsed.threads) |-> ThreadMemory(parsed.threads[i])]
    \o [i \in 1..Len(parsed.lessons) |-> LessonMemory(parsed.lessons[i])]
    \o [i \in 1..Len(parsed.facts) |-> FactMemory(parsed.facts[i])]

\* gen_id(): a fresh id of the namespace
gen_id(agent) == Cardinality(DOMAIN memories[agent]) + 1

-----------------------------------------------------------------------------
(* State of the store and of the running command.                          *)

\* The value of KV '.wake_retrieved_ids': None, or {'ids': [...], 'timestamp': ...}
KvNone == [value |-> "None", ids |-> {}, timestamp |-> 0]
\* A plausible slip: the new ids added to the list the slot already holds
KvIds_Merged(ids, now) ==
    [value |-> "dict", ids |-> ids \cup UNION {kv[a].ids : a \in DOMAIN kv},
     timestamp |-> now]

\* db.kv_set(KV_WAKE_RETRIEVED, {'ids': ..., 'timestamp': ...}): the value
\* replaces the one the slot held
KvIds(ids, now) == [value |-> "dict", ids |-> ids, timestamp |-> now]

NewRun(cmd, agent) ==
    [cmd |-> cmd, agent |-> agent,
     path |-> "running",      \* how the command ended
     session_id |-> 0,        \* sleep: session_id (0: None)
     text_len |-> 0,          \* sleep: len(session_text), once a path depends on it
     parsed |-> EmptyParsed,  \* sleep: parsed
     todo |-> <<>>,           \* sleep: memories _store_parsed_memories has yet to insert
     stored_ids |-> <<>>,     \* sleep: stored_ids
     created |-> {},          \* sleep: ids of the memories this sleep inserted
     link |-> "none",         \* sleep: the co-occurrence transaction: none | ok | failed
     recalled |-> {},         \* wake: recalled_ids; sleep: the ids the Q update rewarded
     after_wake |-> FALSE,    \* sleep: the command before it was a wake of this agent
     kv_before |-> {},        \* sleep: the ids in KV when the sleep began
     q_before |-> <<>>,       \* sleep: the Q-values of those ids when the sleep began
     phases |-> <<>>,         \* sleep: the phases entered after the parse, in order
     failed |-> {},           \* sleep: the phases whose failure boundary caught a failure
     search |-> <<>>]         \* search: the embedding outcome, lambda, ft_rows, results

\* The bot after on_ready, before any completion: no done.jsonl, nothing
\* posted, check_completions between two polls
NoBot ==
    [exists |-> FALSE,    \* done.jsonl exists
     lines |-> <<>>,      \* its lines: the completions, by number
     appended |-> 0,      \* completions the runtime has appended so far
     pc |-> "poll",       \* check_completions: poll | send
     entries |-> <<>>,    \* check_completions: entries
     sent |-> 0,          \* check_completions: entries gone through
     posted |-> {},       \* completions sent to Discord
     allowed |-> {},      \* ALLOWED_CHANNELS (empty: no restriction)
     queue |-> [a \in AGENT_SCHEMAS |-> <<>>],  \* the lines of each queue.jsonl
     msgs |-> 0,          \* messages on_message has handled
     last |-> <<>>]       \* the last message handled and how on_message ended

Init ==
    /\ memories = [a \in AGENT_SCHEMAS |-> <<>>]
    /\ co_occurrences = [a \in AGENT_SCHEMAS |-> {}]
    /\ kv = [a \in AGENT_SCHEMAS |-> KvNone]
    /\ q_value_history = [a \in AGENT_SCHEMAS |-> <<>>]
    /\ sessions = [a \in AGENT_SCHEMAS |-> <<>>]
    /\ agent_registry = [a \in AGENT_SCHEMAS |-> 0]
    /\ shared = <<>>
    /\ pc = "idle"
    /\ run = NewRun("none", "none")
    /\ exit_status = "none"
    /\ preamble = <<>>
    /\ clock = 0
    /\ nfaults = 0
    /\ ex = [lines |-> <<>>, max_chars |-> 0, output |-> <<>>, done |-> FALSE]
    /\ bot = NoBot

\* A plausible slip: the stored value not read, every old_q taken as 0
QValueOf_Zero(rows, mem_id) == 0

\* get_q_values(ids).get(mem_id, 0.5)
QValueOf(rows, mem_id) ==
    IF mem_id \in DOMAIN rows THEN rows[mem_id].q_value ELSE DEFAULT_Q

\* A plausible slip: the exit status inverted
ExitCode_Inverted(success) == IF success THEN 1 ELSE 0

\* main: sys.exit(0 if success else 1)
\* A plausible slip: the status of a failed sleep dropped
ExitCode_AlwaysZero(success) == 0

ExitCode(success) == IF success THEN 0 ELSE 1

\* with db._conn() as conn: the writes of the block are committed together,
\* or none of them is when the block raises
Transaction(ok, before, after) == IF ok THEN after ELSE before

\* A step that may fail: ok, or one more injected failure
MayFail(ok) ==
    /\ ok \/ nfaults < MaxFaults
    /\ nfaults' = IF ok THEN nfaults ELSE nfaults + 1

\* db.insert_memory
\* A plausible slip: the storage singleton left on the first schema
setup_env_NoReset(agent) == "max"

\* setup_env, lines 63-69: the schema the storage singleton uses after the
\* reset, AGENT_SCHEMAS.get(agent, agent); every agent maps to the schema of
\* its own name
setup_env(agent) == agent

\* db.insert_memory: a row of the memories table of the current schema
InsertMemory(agent, id, row) ==
    memories' = [memories EXCEPT ![setup_env(agent)] = Append(@, row)]

\* _embed_memory, lines 801-809: the vector is stored with the memory when
\* get_embedding gives one (`embed_ok`); otherwise the memory stays without
\* a vector
embed_memory(row, embed_ok) == [row EXCEPT !.embedded = embed_ok]

\* A plausible slip: a failed embedding leaves _embed_memory as an exception
AfterEmbed_Reraise(next, embed_ok) == IF embed_ok THEN next ELSE "idle"

\* `except Exception: pass`, lines 808-809: the caller goes on after
\* _embed_memory whether the memory was embedded or not
AfterEmbed(next, embed_ok) == next

\* A plausible slip: the early return updating the registry only
sleep_finalize_RegistryOnly(agent, session_id, sess, end_ok, now) ==
    /\ sessions' = sess
    /\ agent_registry' = [agent_registry EXCEPT ![agent] = now]

\* _sleep_finalize: end the session (own failure boundary), update the registry
sleep_finalize(agent, session_id, sess, end_ok, now) ==
    /\ sessions' =
          IF session_id # 0 /\ end_ok
          THEN [sess EXCEPT ![agent][session_id].ended_at = now]
          ELSE sess
    /\ agent_registry' = [agent_registry EXCEPT ![agent] = now]

\* A plausible slip: the copy to SHARED called last, after the maintenance
PhaseAfter_ShareLast(phase) ==
    CASE phase = "store"   -> "qvalue"
      [] phase = "qvalue"  -> "affect"
      [] phase = "affect"  -> "kg"
      [] phase = "kg"      -> "lessons"
      [] phase = "lessons" -> "goals"
      [] phase = "goals"   -> "decay"
      [] phase = "decay"   -> "share"
      [] phase = "share"   -> "finalize"

\* sleep, lines 382-412: the call that follows the call of a phase
PhaseAfter(phase) ==
    CASE phase = "store"   -> "share"
      [] phase = "share"   -> "qvalue"
      [] phase = "qvalue"  -> "affect"
      [] phase = "affect"  -> "kg"
      [] phase = "kg"      -> "lessons"
      [] phase = "lessons" -> "goals"
      [] phase = "goals"   -> "decay"
      [] phase = "decay"   -> "finalize"

\* A plausible slip: a phase with no failure boundary, whose exception
\* leaves sleep
AfterBoundary_Reraise(next, ok) == IF ok THEN next ELSE "idle"

\* try: ... except Exception: print(...): where control goes after a phase
\* that is wrapped in a failure boundary, whether it failed or not
AfterBoundary(next, ok) == next

\* The phase of the run is entered; failed: its boundary caught a failure
Entered(phase, ok) ==
    [run EXCEPT !.phases = Append(@, phase),
                !.failed = IF ok THEN @ ELSE @ \cup {phase}]

\* sleep, lines 322-350: transcript check, session start, extraction, and the
\* early return of a session too short to summarise
SleepStart(agent) ==
    /\ pc = "idle"
    /\ clock < MaxCmds
    /\ clock' = clock + 1
    /\ \E exists \in BOOLEAN, start_ok \in BOOLEAN, end_ok \in BOOLEAN, len \in TextLens :
          IF ~exists
          THEN /\ start_ok /\ end_ok /\ len = 0
               /\ run' = [NewRun("sleep", agent) EXCEPT !.path = "no_transcript"]
               /\ exit_status' = ExitCode(FALSE)
               /\ pc' = "idle"
               /\ UNCHANGED <<sessions, agent_registry, nfaults>>
          ELSE LET sess == IF start_ok
                           THEN [sessions EXCEPT ![agent] =
                                    Append(@, [started_at |-> clock + 1, ended_at |-> 0])]
                           ELSE sessions
                   session_id == IF start_ok THEN Len(sess[agent]) ELSE 0
                   r == [NewRun("sleep", agent) EXCEPT
                            !.session_id = session_id,
                            !.after_wake = (run.cmd = "wake" /\ run.agent = agent
                                            /\ run.path = "ok"),
                            !.kv_before = kv[agent].ids,
                            !.q_before = [id \in kv[agent].ids |->
                                             QValueOf(memories[agent], id)]]
               IN  IF len < MIN_SESSION_CHARS
                   THEN /\ MayFail(start_ok /\ end_ok)
                        /\ ~(~start_ok /\ ~end_ok)
                        /\ sleep_finalize(agent, session_id, sess, end_ok, clock + 1)
                        /\ run' = [r EXCEPT !.path = "too_short", !.text_len = len]
                        /\ exit_status' = ExitCode(FALSE)
                        /\ pc' = "idle"
                   ELSE /\ end_ok
                        /\ MayFail(start_ok)
                        /\ sessions' = sess
                        /\ run' = r
                        /\ pc' = "summarize"
                        /\ UNCHANGED <<agent_registry, exit_status>>
    /\ UNCHANGED <<memories, co_occurrences, kv, q_value_history, shared,
                   preamble, ex, bot>>

\* sleep, lines 354-380: summarise and parse; the three raw-fallback returns.
\* len(session_text) is at least 50 here; its value is drawn where the code
\* first depends on it, in _store_raw_fallback.
SleepSummarize ==
    /\ pc = "summarize"
    /\ \E outcome \in {"raises", "unusable", "parsed"}, parsed \in ParsedChoices,
          len \in {l \in TextLens : l >= MIN_SESSION_CHARS},
          insert_ok \in BOOLEAN, embed_ok \in BOOLEAN, end_ok \in BOOLEAN :
          LET agent == run.agent
              id == gen_id(agent)
          IN  IF outcome = "parsed" /\ AnyParsed(parsed)
              THEN /\ insert_ok /\ embed_ok /\ end_ok
                   /\ run' = [run EXCEPT !.parsed = parsed, !.todo = ItemsToStore(parsed),
                                         !.phases = <<"store">>]
                   /\ pc' = "store"
                   /\ UNCHANGED <<memories, sessions, agent_registry, exit_status, nfaults>>
              ELSE /\ outcome = "parsed" \/ parsed = EmptyParsed
                   /\ MayFail(insert_ok /\ embed_ok /\ end_ok)
                   /\ ~(~insert_ok /\ ~end_ok)
                   /\ embed_ok \/ (insert_ok /\ end_ok)
                   /\ run.session_id = 0 => end_ok
                   /\ exit_status' = IF insert_ok THEN ExitCode(FALSE) ELSE 1
                   /\ pc' = "idle"
                   /\ IF insert_ok
                      THEN \* _store_raw_fallback, _sleep_finalize, return False
                           /\ InsertMemory(agent, id, embed_memory(RawMemory(len), embed_ok))
                           /\ sleep_finalize(agent, run.session_id, sessions, end_ok, clock)
                           /\ run' = [run EXCEPT !.path = "fallback", !.text_len = len,
                                                 !.created = {id}]
                      ELSE \* db.insert_memory raises: the exception leaves sleep
                           /\ run' = [run EXCEPT !.path = "crashed"]
                           /\ UNCHANGED <<memories, sessions, agent_registry>>
    /\ UNCHANGED <<co_occurrences, kv, q_value_history, shared, preamble, clock, ex, bot>>

\* A plausible slip: a failed insert caught in _store_parsed_memories, which
\* goes on with the ids stored so far
StoreItem_InsertCaught ==
    /\ pc = "store"
    /\ run.todo # <<>>
    /\ \E insert_ok \in BOOLEAN, embed_ok \in BOOLEAN :
          LET agent == run.agent
              id == gen_id(agent)
          IN  /\ MayFail(insert_ok /\ embed_ok)
              /\ insert_ok \/ embed_ok
              /\ IF insert_ok
                 THEN /\ InsertMemory(agent, id, embed_memory(Head(run.todo), embed_ok))
                      /\ run' = [run EXCEPT !.todo = Tail(@),
                                            !.stored_ids = Append(@, id),
                                            !.created = @ \cup {id}]
                      /\ pc' = AfterEmbed(IF Len(run.todo) = 1 THEN "link" ELSE "store",
                                          embed_ok)
                      /\ UNCHANGED exit_status
                 ELSE \* db.insert_memory raises: the loops end, the linking follows
                      /\ run' = [run EXCEPT !.path = "crashed"]
                      /\ exit_status' = 1
                      /\ pc' = "link"
                      /\ UNCHANGED memories
    /\ UNCHANGED <<co_occurrences, kv, q_value_history, sessions, agent_registry,
                   shared, preamble, clock, ex, bot>>

\* _store_parsed_memories, lines 734-778: one iteration of the three loops.
\* The memory is embedded unless get_embedding gives None or raises, or
\* upsert_embedding raises (~embed_ok).
StoreItem ==
    /\ pc = "store"
    /\ run.todo # <<>>
    /\ \E insert_ok \in BOOLEAN, embed_ok \in BOOLEAN :
          LET agent == run.agent
              id == gen_id(agent)
          IN  /\ MayFail(insert_ok /\ embed_ok)
              /\ insert_ok \/ embed_ok
              /\ IF insert_ok
                 THEN /\ InsertMemory(agent, id, embed_memory(Head(run.todo), embed_ok))
                      /\ run' = [run EXCEPT !.todo = Tail(@),
                                            !.stored_ids = Append(@, id),
                                            !.created = @ \cup {id}]
                      /\ pc' = AfterEmbed(IF Len(run.todo) = 1 THEN "link" ELSE "store",
                                          embed_ok)
                      /\ UNCHANGED exit_status
                 ELSE \* db.insert_memory raises: the exception leaves sleep
                      /\ run' = [run EXCEPT !.path = "crashed"]
                      /\ exit_status' = 1
                      /\ pc' = "idle"
                      /\ UNCHANGED memories
    /\ UNCHANGED <<co_occurrences, kv, q_value_history, sessions, agent_registry,
                   shared, preamble, clock, ex, bot>>

-----------------------------------------------------------------------------
(* Sleep: the phases after the memories are stored.                        *)

\* The set as a sequence in ascending order
RECURSIVE SortedSeq(_)
SortedSeq(S) ==
    IF S = {} THEN <<>>
    ELSE LET m == CHOOSE x \in S : \A y \in S : x <= y
         IN  <<m>> \o SortedSeq(S \ {m})

\* A plausible slip: only (stored_ids[j], stored_ids[k]) is linked
RECURSIVE PairsOneWay(_, _, _)
PairsOneWay(ids, j, k) ==
    IF j > Len(ids) THEN <<>>
    ELSE IF k > Len(ids) THEN PairsOneWay(ids, j + 1, j + 2)
    ELSE << <<ids[j], ids[k]>> >> \o PairsOneWay(ids, j, k + 1)

CoOccurrencePairs_OneWay(stored_ids) == PairsOneWay(stored_ids, 1, 2)

\* for j in range(len(ids)): for k in range(j + 1, len(ids)):
\*     for m1, m2 in [(ids[j], ids[k]), (ids[k], ids[j])]
RECURSIVE PairsFrom(_, _, _)
PairsFrom(ids, j, k) ==
    IF j > Len(ids) THEN <<>>
    ELSE IF k > Len(ids) THEN PairsFrom(ids, j + 1, j + 2)
    ELSE << <<ids[j], ids[k]>>, <<ids[k], ids[j]>> >> \o PairsFrom(ids, j, k + 1)

\* A plausible slip: the pair loops run one id past the ids inserted
CoOccurrencePairs_OnePast(stored_ids) ==
    PairsFrom(Append(stored_ids, stored_ids[Len(stored_ids)] + 1), 1, 2)

CoOccurrencePairs(stored_ids) == PairsFrom(stored_ids, 1, 2)

\* INSERT ... VALUES (m1, m2, 1) ON CONFLICT (memory_id, other_id)
\*   DO UPDATE SET count = count + 1
UpsertCoOccurrence(rows, m1, m2) ==
    IF \E r \in rows : r.memory_id = m1 /\ r.other_id = m2
    THEN { IF r.memory_id = m1 /\ r.other_id = m2
           THEN [r EXCEPT !.count = @ + 1] ELSE r : r \in rows }
    ELSE rows \cup {[memory_id |-> m1, other_id |-> m2, count |-> 1]}

RECURSIVE UpsertAll(_, _)
UpsertAll(rows, pairs) ==
    IF pairs = <<>> THEN rows
    ELSE UpsertAll(UpsertCoOccurrence(rows, Head(pairs)[1], Head(pairs)[2]),
                   Tail(pairs))

\* _store_parsed_memories, lines 780-798: one transaction links every pair of
\* the new ids; if it fails it is rolled back and the failure is logged
LinkCoOccurrences ==
    /\ pc = "link"
    /\ \E link_ok \in BOOLEAN :
          /\ Len(run.stored_ids) <= 1 => link_ok
          /\ MayFail(link_ok)
          /\ co_occurrences' =
                IF Len(run.stored_ids) > 1
                THEN Transaction(link_ok, co_occurrences,
                         [co_occurrences EXCEPT ![run.agent] =
                             UpsertAll(@, CoOccurrencePairs(run.stored_ids))])
                ELSE co_occurrences
          /\ run' = [run EXCEPT !.link = IF Len(run.stored_ids) <= 1 THEN "none"
                                         ELSE IF link_ok THEN "ok" ELSE "failed"]
    /\ pc' = PhaseAfter("store")
    /\ UNCHANGED <<memories, kv, q_value_history, sessions, agent_registry,
                   shared, exit_status, preamble, clock, ex, bot>>

\* _cross_pollinate: one transaction inserts items_to_share into shared.memories
CrossPollinate ==
    /\ pc = "share"
    /\ \E share_ok \in BOOLEAN :
          LET rows == SharedRows(run.agent, run.parsed)
          IN  /\ rows = <<>> => share_ok
              /\ MayFail(share_ok)
              /\ shared' = Transaction(share_ok, shared, shared \o rows)
              /\ run' = Entered("share", share_ok)
              /\ pc' = AfterBoundary(PhaseAfter("share"), share_ok)
    /\ UNCHANGED <<memories, co_occurrences, kv, q_value_history, sessions,
                   agent_registry, exit_status, preamble, clock, ex, bot>>

\* A row of q_value_history
QHistoryRow(memory_id, session_id, old_q, new_q, reward, reward_source) ==
    [memory_id |-> memory_id, session_id |-> session_id, old_q |-> old_q,
     new_q |-> new_q, reward |-> reward, reward_source |-> reward_source]

\* _sleep_qvalue_update: reward the ids the last wake persisted.
\* outcome: "ok" | "fails" (before the updates commit) | "clear_fails"
\* (kv_set raises after the updates committed)
SleepQValueUpdate ==
    /\ pc = "qvalue"
    /\ \E outcome \in {"ok", "fails", "clear_fails"} :
          LET agent == run.agent
              wake_data == kv[agent]
              retrieved_ids == SortedSeq(wake_data.ids)
              has_new == Len(run.stored_ids) > 0
              reward == IF has_new THEN REWARD_DOWNSTREAM ELSE REWARD_DEAD_END
              reward_source == IF has_new THEN "downstream" ELSE "dead_end"
              rows == memories[agent]
              history ==
                  [i \in 1..Len(retrieved_ids) |->
                      QHistoryRow(retrieved_ids[i], run.session_id,
                                  QValueOf(rows, retrieved_ids[i]),
                                  update_q(QValueOf(rows, retrieved_ids[i]), reward),
                                  reward, reward_source)]
          IN  /\ MayFail(outcome = "ok")
              /\ IF wake_data.value = "None" \/ wake_data.ids = {}
                 THEN \* nothing to reward: return before the slot is touched
                      /\ outcome = "ok"
                      /\ run' = Entered("qvalue", TRUE)
                      /\ UNCHANGED <<memories, q_value_history, kv>>
                 ELSE IF outcome = "fails"
                 THEN /\ run' = Entered("qvalue", FALSE)
                      /\ UNCHANGED <<memories, q_value_history, kv>>
                 ELSE /\ memories' = [memories EXCEPT ![agent] =
                            [id \in DOMAIN rows |->
                                IF id \in wake_data.ids
                                THEN [rows[id] EXCEPT !.q_value = update_q(@, reward)]
                                ELSE rows[id]]]
                      /\ q_value_history' =
                            [q_value_history EXCEPT ![agent] = @ \o history]
                      /\ kv' = IF outcome = "ok"
                               THEN [kv EXCEPT ![agent] = KvNone]
                               ELSE kv
                      /\ run' = [Entered("qvalue", outcome = "ok") EXCEPT
                                    !.recalled = wake_data.ids]
              /\ pc' = AfterBoundary(PhaseAfter("qvalue"), outcome = "ok")
    /\ UNCHANGED <<co_occurrences, sessions, agent_registry, shared,
                   exit_status, preamble, clock, ex, bot>>

\* A phase whose tables (mood, typed edges, lessons, goals) are not part of
\* this model: the whole body is inside try / except Exception, so that a
\* failure of the module is caught; can_fail: the body reaches its module
CognitivePhase(phase, can_fail) ==
    /\ pc = phase
    /\ \E ok \in BOOLEAN :
          /\ ~can_fail => ok
          /\ MayFail(ok)
          /\ run' = Entered(phase, ok)
          /\ pc' = AfterBoundary(PhaseAfter(phase), ok)
    /\ UNCHANGED <<memories, co_occurrences, kv, q_value_history, sessions,
                   agent_registry, shared, exit_status, preamble, clock, ex, bot>>

\* _sleep_affect_update
SleepAffectUpdate == CognitivePhase("affect", TRUE)

\* _sleep_knowledge_graph: returns at once when stored_ids is empty
SleepKnowledgeGraph == CognitivePhase("kg", run.stored_ids # <<>>)

\* _sleep_lesson_extraction: returns at once when parsed has no lesson
SleepLessonExtraction == CognitivePhase("lessons", run.parsed.lessons # <<>>)

\* _sleep_goal_evaluation
SleepGoalEvaluation == CognitivePhase("goals", TRUE)

\* The latest ended_at among the closed sessions of a namespace (0: none)
LastSessionEnd(sess) ==
    LET ends == {sess[i].ended_at : i \in DOMAIN sess}
    IN  IF ends = {} THEN 0 ELSE CHOOSE e \in ends : \A f \in ends : e >= f

\* session_maintenance of decay_evolution, on one row
Maintained(row, last_end) ==
    LET freshness == IF row.type = "active"
                     THEN (row.freshness * DECAY_NUM) \div DECAY_DEN
                     ELSE row.freshness
        ssr == IF row.last_recalled > last_end
               THEN row.sessions_since_recall
               ELSE row.sessions_since_recall + 1
        type == IF row.type = "active" /\ freshness < FRESHNESS_FLOOR
                   /\ row.recall_count = 0
                THEN "archive"
                ELSE IF row.type = "active" /\ row.recall_count >= PROMOTE_THRESHOLD
                THEN "core"
                ELSE row.type
    IN  [row EXCEPT !.freshness = freshness, !.sessions_since_recall = ssr,
                    !.type = type]

\* sleep, lines 404-409: decay / promotion, inside a failure boundary
SleepDecay ==
    /\ pc = "decay"
    /\ \E decay_ok \in BOOLEAN :
          /\ MayFail(decay_ok)
          /\ memories' =
                IF decay_ok
                THEN [memories EXCEPT ![run.agent] =
                         [id \in DOMAIN @ |->
                             Maintained(@[id], LastSessionEnd(sessions[run.agent]))]]
                ELSE memories
          /\ run' = Entered("decay", decay_ok)
          /\ pc' = AfterBoundary(PhaseAfter("decay"), decay_ok)
    /\ UNCHANGED <<co_occurrences, kv, q_value_history, sessions, agent_registry,
                   shared, exit_status, preamble, clock, ex, bot>>

\* sleep, lines 411-412: _sleep_finalize and return True
SleepFinalize ==
    /\ pc = "finalize"
    /\ \E end_ok \in BOOLEAN :
          /\ run.session_id = 0 => end_ok
          /\ MayFail(end_ok)
          /\ sleep_finalize(run.agent, run.session_id, sessions, end_ok, clock)
          /\ run' = [Entered("finalize", end_ok) EXCEPT !.path = "ingested"]
    /\ exit_status' = ExitCode(TRUE)
    /\ pc' = "idle"
    /\ UNCHANGED <<memories, co_occurrences, kv, q_value_history, shared,
                   preamble, clock, ex, bot>>

-----------------------------------------------------------------------------
(* Wake.                                                                   *)

StatusChars ==
       "completed"   :> <<"c","o","m","p","l","e","t","e","d">>
    @@ "blocked"     :> <<"b","l","o","c","k","e","d">>
    @@ "in-progress" :> <<"i","n","-","p","r","o","g","r","e","s","s">>

\* "[Session {session_date}] "
SessionPrefix == <<"[","S","e","s","s","i","o","n"," ">> \o SESSION_DATE \o <<"]"," ">>

\* A plausible slip: the excerpt taken whatever the length of the text
RawExcerpt_Always(len) ==
    LET session_text == <<>> \o [i \in 1..len |-> "#"]
    IN  PyPrefix(session_text, 500)
        \o <<"\n","\n","[",".",".",".","]","\n","\n">>
        \o PySuffix(session_text, -500)

\* The excerpt of _store_raw_fallback of a session text of `len` characters;
\* the characters of a transcript are not modelled, "#" stands for each
RawExcerpt(len) ==
    LET session_text == <<>> \o [i \in 1..len |-> "#"]
    IN  IF len > RAW_EXCERPT_LIMIT
        THEN PyPrefix(session_text, RAW_EXCERPT_PART)
             \o <<"\n","\n","[",".",".",".","]","\n","\n">>
             \o PySuffix(session_text, -RAW_EXCERPT_PART)
        ELSE session_text

\* The content column of a memory row
Content(row) ==
    CASE row.kind = "thread" ->
            SessionPrefix \o <<"T","h","r","e","a","d",":"," ">> \o TEXT[row.name]
            \o <<"."," ">> \o TEXT[row.text]
            \o <<" ","S","t","a","t","u","s",":"," ">> \o StatusChars[row.status]
            \o <<".">>
      [] row.kind = "lesson" ->
            SessionPrefix
            \o <<"L","e","s","s","o","n"," ","l","e","a","r","n","e","d",":"," ">>
            \o TEXT[row.text]
      [] row.kind = "fact" ->
            SessionPrefix \o <<"K","e","y"," ","f","a","c","t",":"," ">>
            \o TEXT[row.text]
      [] row.kind = "raw" ->
            SessionPrefix
            \o <<"R","a","w"," ","s","e","s","s","i","o","n"," ","e","x","c","e","r","p","t"," ","(","s","u","m","m","a","r","i","z","e","r"," ","f","a","i","l","e","d",")",":","\n">>
            \o RawExcerpt(row.len)

\* content[:150].replace('\n', ' ')
Preview(row) ==
    LET head == PyPrefix(Content(row), PREVIEW_LEN)
    IN  <<>> \o [i \in 1..Len(head) |-> IF head[i] = "\n" THEN " " ELSE head[i]]

\* The label of a line of the recent section
RecentLabel(row) ==
    IF "lesson" \in row.tags THEN "Lesson"
    ELSE IF "key-fact" \in row.tags THEN "Fact"
    ELSE IF "thread" \in row.tags THEN "Thread"
    ELSE "Recent"

LabelChars ==
       "Lesson" :> <<"L","e","s","s","o","n">>
    @@ "Fact"   :> <<"F","a","c","t">>
    @@ "Thread" :> <<"T","h","r","e","a","d">>
    @@ "Recent" :> <<"R","e","c","e","n","t">>
    @@ "Core"   :> <<"C","o","r","e">>

\* f"[{label}] {preview}"
MemoryLine(label, row) == <<"[">> \o LabelChars[label] \o <<"]"," ">> \o Preview(row)

\* f"=== YOUR MEMORY ({display_name}) ==="
HeaderLine(agent) ==
    <<"=","=","="," ","Y","O","U","R"," ","M","E","M","O","R","Y"," ","(">>
    \o AGENT_DISPLAY_NAMES[agent] \o <<")"," ","=","=","=">>

\* The first `limit` ids of S, newest first
RECURSIVE Newest(_, _)
Newest(S, limit) ==
    IF S = {} \/ limit = 0 THEN <<>>
    ELSE LET m == CHOOSE x \in S : \A y \in S : x >= y
         IN  <<m>> \o Newest(S \ {m}, limit - 1)

\* db.list_memories(type_=type, limit=limit): newest first
list_memories(rows, type, limit) ==
    Newest({id \in DOMAIN rows : rows[id].type = type}, limit)

\* SELECT ... WHERE 'lesson' = ANY(tags) AND type IN ('core', 'active')
\*   ORDER BY emotional_weight DESC LIMIT 3: every answer the query may give
\* (rows of equal emotional_weight come in any order)
LessonQuery(rows) ==
    LET cand == {id \in DOMAIN rows :
                    "lesson" \in rows[id].tags /\ rows[id].type \in {"core", "active"}}
        n == Min(LESSON_LIMIT, Cardinality(cand))
    IN  { q \in [1..n -> cand] :
            /\ \A i, j \in 1..n : i # j => q[i] # q[j]
            /\ \A i, j \in 1..n :
                  i < j => rows[q[i]].emotional_weight >= rows[q[j]].emotional_weight
            /\ \A id \in cand :
                  (\A i \in 1..n : q[i] # id) =>
                      \A i \in 1..n :
                          rows[q[i]].emotional_weight >= rows[id].emotional_weight }

\* The lesson loop, lines 156-161: the ids whose "[Lesson]" line is appended;
\* a lesson is skipped when the first 50 characters of its preview occur in a
\* line already emitted
RECURSIVE LessonsShown(_, _, _)
LessonsShown(rows, lessons, lines) ==
    IF lessons = <<>> THEN <<>>
    ELSE LET row == rows[Head(lessons)]
             dup == \E i \in DOMAIN lines :
                        Contains(PyPrefix(Preview(row), DEDUP_LEN), lines[i])
         IN  IF dup THEN LessonsShown(rows, Tail(lessons), lines)
             ELSE <<Head(lessons)>>
                  \o LessonsShown(rows, Tail(lessons),
                                  Append(lines, MemoryLine("Lesson", row)))

\* A line of the preamble, kept by its section and the memory it shows
PLine(sec, id, label) == [sec |-> sec, id |-> id, label |-> label]

\* _get_shared_memories: the newest `limit` rows of other agents
SharedFor(agent, limit) ==
    Newest({i \in DOMAIN shared : shared[i].created_by # agent}, limit)

\* A plausible slip: the UPDATE setting recall_count alone
Recalled_CountOnly(row, now) == [row EXCEPT !.recall_count = @ + 1]

\* The SET clause of the recall UPDATE, lines 172-174, on one row
Recalled(row, now) ==
    [row EXCEPT !.recall_count = @ + 1,
                !.last_recalled = now,
                !.sessions_since_recall = 0]

\* A plausible slip: the sign of the increment
RecallUpdate_Decrement(rows, unique_ids, now) ==
    [id \in DOMAIN rows |->
        IF id \in unique_ids
        THEN [rows[id] EXCEPT !.recall_count = @ - 1,
                              !.last_recalled = now,
                              !.sessions_since_recall = 0]
        ELSE rows[id]]

\* The recall UPDATE, lines 170-176: one statement, WHERE id = ANY(unique_ids)
RecallUpdate(rows, unique_ids, now) ==
    [id \in DOMAIN rows |->
        IF id \in unique_ids THEN Recalled(rows[id], now) ELSE rows[id]]

\* A plausible slip: the first-session branch without its notice
FirstSessionLines_NoNotice ==
    <<PLine("header", 0, ""), PLine("total_zero", 0, ""), PLine("end", 0, "")>>

\* The branch `stats['total'] == 0`, lines 97-103: the header, the notice
\* "[No memories yet ...]", "Total memories: 0" and the closing "==="
FirstSessionLines ==
    <<PLine("header", 0, ""), PLine("no_memories", 0, ""),
      PLine("total_zero", 0, ""), PLine("end", 0, "")>>

\* _wake_self_narrative, lines 265-274, and _wake_goals, lines 277-286: the
\* paragraph is appended when the module gives a text of more than 10
\* characters (`given`), and nothing is appended otherwise
Paragraph(sec, given) == IF given THEN <<PLine(sec, 0, "")>> ELSE <<>>

\* A plausible slip: the shared memories appended after the two paragraphs
WakeTail_SharedLast(others, narrative, goals) ==
    Paragraph("narrative", narrative)
    \o Paragraph("goals", goals)
    \o [i \in 1..Len(others) |-> PLine("shared", others[i], "")]
    \o <<PLine("stats", 0, ""), PLine("end", 0, "")>>

\* The end of the preamble, lines 191-222: the shared memories, the
\* self-narrative, the goals, the stats footer and the closing "==="
WakeTail(others, narrative, goals) ==
    [i \in 1..Len(others) |-> PLine("shared", others[i], "")]
    \o Paragraph("narrative", narrative)
    \o Paragraph("goals", goals)
    \o <<PLine("stats", 0, ""), PLine("end", 0, "")>>

\* wake(agent), where format_for_context gives a self-narrative iff
\* `narrative` and format_goal_context gives goals iff `goals`.  The affect
\* summary comes from a module outside this model and is left out of the
\* preamble.
WakeWith(agent, narrative, goals) ==
    /\ pc = "idle"
    /\ clock < MaxCmds
    /\ clock' = clock + 1
    /\ exit_status' = 0
    /\ pc' = "idle"
    /\ LET rows == memories[agent]
           now == clock + 1
       IN  IF Len(rows) = 0
           THEN \* stats['total'] == 0
                \* lines 101-102: the goals follow the closing "==="
                /\ preamble' = FirstSessionLines \o Paragraph("goals", goals)
                /\ run' = [NewRun("wake", agent) EXCEPT !.path = "empty"]
                /\ UNCHANGED <<memories, kv, nfaults>>
           ELSE \E lessons \in LessonQuery(rows), recall_ok \in BOOLEAN, kv_ok \in BOOLEAN :
                LET recent == list_memories(rows, "active", RECENT_LIMIT)
                    core == list_memories(rows, "core", CORE_LIMIT)
                    recalled_ids == recent \o core \o lessons
                    unique_ids == SeqToSet(recalled_ids)
                    lines ==
                        <<HeaderLine(agent)>>
                        \o (IF recent # <<>> THEN <<<<>>>> ELSE <<>>)
                        \o [i \in 1..Len(recent) |->
                               MemoryLine(RecentLabel(rows[recent[i]]), rows[recent[i]])]
                        \o (IF core # <<>> THEN <<<<>>>> ELSE <<>>)
                        \o [i \in 1..Len(core) |-> MemoryLine("Core", rows[core[i]])]
                        \o (IF lessons # <<>> THEN <<<<>>>> ELSE <<>>)
                    shown == LessonsShown(rows, lessons, lines)
                    trained == {id \in unique_ids : rows[id].q_value # DEFAULT_Q}
                    others == SharedFor(agent, SHARED_LIMIT)
                IN  /\ MayFail(recall_ok /\ kv_ok)
                    /\ recall_ok \/ kv_ok
                    /\ unique_ids = {} => recall_ok
                    /\ preamble' =
                          <<PLine("header", 0, "")>>
                          \o [i \in 1..Len(recent) |->
                                 PLine("recent", recent[i], RecentLabel(rows[recent[i]]))]
                          \o [i \in 1..Len(core) |-> PLine("core", core[i], "Core")]
                          \o [i \in 1..Len(shown) |-> PLine("lesson", shown[i], "Lesson")]
                          \o (IF trained # {} THEN <<PLine("q_values", 0, "")>> ELSE <<>>)
                          \o WakeTail(others, narrative, goals)
                    /\ memories' =
                          IF recall_ok
                          THEN [memories EXCEPT ![agent] =
                                   RecallUpdate(rows, unique_ids, now)]
                          ELSE memories
                    /\ kv' = IF kv_ok
                             THEN [kv EXCEPT ![agent] = KvIds(unique_ids, now)]
                             ELSE kv
                    /\ run' = [NewRun("wake", agent) EXCEPT
                                  !.path = IF kv_ok THEN "ok" ELSE "kv_failed",
                                  !.recalled = unique_ids]
    /\ UNCHANGED <<co_occurrences, q_value_history, sessions, agent_registry,
                   shared, ex, bot>>

\* wake(agent) with no self-narrative and no goals to show
Wake(agent) == WakeWith(agent, FALSE, FALSE)

-----------------------------------------------------------------------------
(* The pipeline specification: wake and sleep commands of the run agents.  *)

Next ==
    \/ \E agent \in RunAgents : Wake(agent)
    \/ \E agent \in RunAgents : SleepStart(agent)
    \/ SleepSummarize
    \/ StoreItem
    \/ LinkCoOccurrences
    \/ CrossPollinate
    \/ SleepQValueUpdate
    \/ SleepAffectUpdate
    \/ SleepKnowledgeGraph
    \/ SleepLessonExtraction
    \/ SleepGoalEvaluation
    \/ SleepDecay
    \/ SleepFinalize

Spec == Init /\ [][Next]_vars

-----------------------------------------------------------------------------
(* The command specification: the four commands of main.                   *)

\* The queries given to search
SearchQueries == {<<"a","p","i">>, <<"r","a","w">>}

\* status(agent), lines 933-1012: db.get_stats and COUNT queries; it prints
\* the counts and writes no table
Status(agent) ==
    /\ pc = "idle"
    /\ clock < MaxCmds
    /\ clock' = clock + 1
    /\ LET rows == memories[agent]
           count(type) == Cardinality({id \in DOMAIN rows : rows[id].type = type})
       IN  preamble' = <<PLine("total", Len(rows), ""),
                         PLine("core", count("core"), ""),
                         PLine("active", count("active"), ""),
                         PLine("archive", count("archive"), ""),
                         PLine("sessions", Len(sessions[agent]), ""),
                         PLine("shared", Len(shared), "")>>
    /\ run' = [NewRun("status", agent) EXCEPT !.path = "ok"]
    /\ exit_status' = 0
    /\ pc' = "idle"
    /\ UNCHANGED <<storeVars, shared, nfaults, ex, bot>>

\* The `limit` first ids of S by ascending distance (ids of equal distance
\* by id): db.search_similar(embedding, limit)
RECURSIVE search_similar(_, _, _)
search_similar(S, distance, limit) ==
    IF S = {} \/ limit = 0 THEN <<>>
    ELSE LET m == CHOOSE x \in S :
                     \A y \in S : distance[x] < distance[y]
                                  \/ (distance[x] = distance[y] /\ x <= y)
         IN  <<m>> \o search_similar(S \ {m}, distance, limit - 1)

\* The `limit` first ids of S by descending rank, the newest first among
\* ids of equal rank
RECURSIVE TopRanked(_, _, _)
TopRanked(S, rank, limit) ==
    IF S = {} \/ limit = 0 THEN <<>>
    ELSE LET m == CHOOSE x \in S :
                     \A y \in S : rank[x] > rank[y]
                                  \/ (rank[x] = rank[y] /\ x >= y)
         IN  <<m>> \o TopRanked(S \ {m}, rank, limit - 1)

\* db.search_fulltext(query, limit=5): the best-ranked rows whose content
\* holds the query, whatever its case (of a raw excerpt, whose characters are
\* not modelled, the header line is searched)
search_fulltext(rows, query, rank) ==
    TopRanked({id \in DOMAIN rows :
                  Contains(query,
                           Lower(IF rows[id].kind = "raw"
                                 THEN Content([rows[id] EXCEPT !.len = 0])
                                 ELSE Content(rows[id])))}, rank, 5)

\* similarity = 1 - distance if distance else 0, line 1038, in thousandths
similarity(distance) == IF distance # 0 THEN 1000 - distance ELSE 0

\* An entry of `results`: (similarity, meta, content), with the distance the
\* database gave and whether the semantic search found it
Result(id, sim, distance, semantic) ==
    [id |-> id, sim |-> sim, distance |-> distance, semantic |-> semantic]

\* A plausible slip: the semantic rows appended whatever get_embedding gave
semantic_results_Always(embedding, rows, answer) ==
    LET near == search_similar({id \in answer.embedded \cap DOMAIN rows :
                                   rows[id].embedded}, answer.distance, 10)
    IN  <<>> \o [i \in 1..Len(near) |->
                    Result(near[i], similarity(answer.distance[near[i]]),
                           answer.distance[near[i]], TRUE)]

\* The semantic search, lines 1030-1041: with no embedding of the query
\* ("none") nothing is appended, and a failure ("raises") is caught with
\* nothing appended
semantic_results(embedding, rows, answer) ==
    IF embedding = "vector"
    THEN LET near == search_similar({id \in answer.embedded \cap DOMAIN rows :
                                        rows[id].embedded}, answer.distance, 10)
         IN  <<>> \o [i \in 1..Len(near) |->
                         Result(near[i], similarity(answer.distance[near[i]]),
                                answer.distance[near[i]], TRUE)]
    ELSE <<>>

\* The full-text supplement, lines 1044-1049: a row is appended with its rank
\* unless its id is in the results already
RECURSIVE fulltext_supplement(_, _, _)
fulltext_supplement(results, ft_rows, rank) ==
    IF ft_rows = <<>> THEN results
    ELSE LET id == Head(ft_rows)
         IN  fulltext_supplement(
                 IF \E i \in DOMAIN results : results[i].id = id
                 THEN results
                 ELSE Append(results, Result(id, rank[id], 0, FALSE)),
                 Tail(ft_rows), rank)

\* composite_score(sim, q, lam) = (1 - lam) * sim + lam * q, in millionths
composite_score(sim, q, lam) == (1000 - lam) * sim + lam * q

\* list.sort(key=lambda x: x[0], reverse=True): descending by score, entries
\* of equal score in their former order
RECURSIVE SortedByScore(_)
SortedByScore(entries) ==
    IF entries = <<>> THEN <<>>
    ELSE LET n == Len(entries)
             init == SortedByScore(SubSeq(entries, 1, n - 1))
             k == Cardinality({i \in DOMAIN init : init[i].score >= entries[n].score})
         IN  SubSeq(init, 1, k) \o <<entries[n]>> \o SubSeq(init, k + 1, n - 1)

\* A line of the search output: the memory, its score, similarity and Q-value
ResultLine(r, q, score) ==
    [sec |-> "result", id |-> r.id, label |-> "", score |-> score,
     sim |-> r.sim, q |-> q]

\* A plausible slip: the results sorted by their Q-values
rerank_ByQ(results, rows, lam) ==
    SortedByScore(<<>> \o [i \in 1..Len(results) |->
        ResultLine(results[i], QValueOf(rows, results[i].id),
                   QValueOf(rows, results[i].id))])

\* The re-rank, lines 1058-1069: the composite score of every result, and
\* the results sorted by it
rerank(results, rows, lam) ==
    SortedByScore(<<>> \o [i \in 1..Len(results) |->
        ResultLine(results[i], QValueOf(rows, results[i].id),
                   composite_score(results[i].sim,
                                   QValueOf(rows, results[i].id), lam))])

\* The fallback, lines 1085-1086: the results sorted by their similarity
simple_ranking(results) ==
    SortedByScore(<<>> \o [i \in 1..Len(results) |->
        ResultLine(results[i], DEFAULT_Q, results[i].sim)])

\* reranked[:8], results[:8]
TOP_RESULTS == 8

\* search(agent, query), lines 1019-1094.  get_embedding gives a vector, gives
\* None or raises (`embedding`); `answer` holds what the database would
\* answer: the memories with a vector, their distances to the query and
\* their full-text ranks; `lam` is get_lambda(); the re-rank fails unless
\* `rerank_ok`.  It writes no table.
SearchWith(agent, query, embedding, answer, lam, rerank_ok) ==
    /\ pc = "idle"
    /\ clock < MaxCmds
    /\ clock' = clock + 1
    /\ MayFail(embedding # "raises" /\ rerank_ok)
    /\ LET rows == memories[agent]
           ft_rows == search_fulltext(rows, query, answer.rank)
           results == fulltext_supplement(semantic_results(embedding, rows, answer),
                                          ft_rows, answer.rank)
           ranked == IF rerank_ok THEN rerank(results, rows, lam)
                     ELSE simple_ranking(results)
           top == SubSeq(ranked, 1, Min(TOP_RESULTS, Len(ranked)))
       IN  /\ preamble' = IF results = <<>>
                          THEN <<PLine("no_memories_found", 0, "")>>
                          ELSE top
           /\ run' = [NewRun("search", agent) EXCEPT
                         !.path = IF results = <<>> THEN "none_found"
                                  ELSE IF rerank_ok THEN "reranked" ELSE "fallback",
                         !.recalled = {top[i].id : i \in DOMAIN top},
                         !.search = [embedding |-> embedding, lam |-> lam,
                                     ft_rows |-> ft_rows, results |-> results]]
    /\ exit_status' = 0
    /\ pc' = "idle"
    /\ UNCHANGED <<storeVars, shared, ex, bot>>

\* search(agent, query) where get_embedding gives None, every full-text rank
\* is 0.1 and lambda has its default
Search(agent, query) ==
    SearchWith(agent, query, "none",
               [embedded |-> {}, distance |-> <<>>,
                rank |-> [id \in DOMAIN memories[agent] |-> 100]],
               300, TRUE)

NextCommands ==
    \/ Next
    \/ \E agent \in RunAgents : Status(agent)
    \/ \E agent \in RunAgents, query \in SearchQueries : Search(agent, query)

SpecCommands == Init /\ [][NextCommands]_vars

-----------------------------------------------------------------------------
(* The search specification: searches of a namespace that earlier sessions *)
(* have filled, under every answer of the embedding and of the database.   *)

\* A memory an earlier sleep left with the Q-value q
WithQ(row, q) == [row EXCEPT !.q_value = q]

SearchTable ==
    LET rows == << FactMemory("port"), WithQ(LessonMemory("api500"), 800),
                   FactMemory("deploy"), WithQ(LessonMemory("checkapi"), 200),
                   FactMemory("queue"), LessonMemory("verdictapi"),
                   FactMemory("askbeth"), LessonMemory("checkcfg"),
                   WithQ(FactMemory("voted"), 650), FactMemory("askdebater") >>
    IN  <<>> \o [i \in DOMAIN rows |-> embed_memory(rows[i], TRUE)]

SearchIds == DOMAIN SearchTable

\* What the database may answer: which memories the similarity query
\* reaches, how far each is from the query (0: the same vector), and the
\* full-text rank of each
SearchAnswers ==
    [embedded : {SearchIds, {id \in SearchIds : id % 2 = 0}},
     distance : {[id \in SearchIds |-> 100 * (id - 1)],
                 [id \in SearchIds |-> 50 * id],
                 [id \in SearchIds |-> 300]},
     rank : {[id \in SearchIds |-> 100], [id \in SearchIds |-> 20 * id]}]

\* get_lambda(): no weight on the Q-value, or the default 0.3
Lambdas == {0, 300}

\* The search is the last command of the run
InitSearch ==
    /\ \E rows \in {SearchTable, SubSeq(SearchTable, 1, 3)} :
          memories = [a \in AGENT_SCHEMAS |-> IF a = "max" THEN rows ELSE <<>>]
    /\ co_occurrences = [a \in AGENT_SCHEMAS |-> {}]
    /\ kv = [a \in AGENT_SCHEMAS |-> KvNone]
    /\ q_value_history = [a \in AGENT_SCHEMAS |-> <<>>]
    /\ sessions = [a \in AGENT_SCHEMAS |->
                      IF a = "max" THEN <<[started_at |-> 1, ended_at |-> 1]>>
                      ELSE <<>>]
    /\ agent_registry = [a \in AGENT_SCHEMAS |-> IF a = "max" THEN 1 ELSE 0]
    /\ shared = <<>>
    /\ pc = "idle"
    /\ run = NewRun("none", "none")
    /\ exit_status = "none"
    /\ preamble = <<>>
    /\ clock = MaxCmds - 1
    /\ nfaults = 0
    /\ ex = [lines |-> <<>>, max_chars |-> 0, output |-> <<>>, done |-> FALSE]
    /\ bot = NoBot

NextSearch ==
    \E agent \in RunAgents, query \in SearchQueries,
       embedding \in {"vector", "none", "raises"}, answer \in SearchAnswers,
       lam \in Lambdas, rerank_ok \in BOOLEAN :
        SearchWith(agent, query, embedding, answer, lam, rerank_ok)

SpecSearch == InitSearch /\ [][NextSearch]_vars

-----------------------------------------------------------------------------
(* The maintenance specification: wake and sleep on a namespace that       *)
(* earlier sessions have filled, so that promotion and archival are near.  *)

\* Memories as earlier sessions leave them: an active fact never recalled,
\* one decay step above the floor; an active lesson recalled twice, and
\* three times; a core lesson promoted long ago; an archived fact
Fading == [FactMemory("port") EXCEPT !.freshness = 102, !.sessions_since_recall = 44]
RecalledTwice ==
    [LessonMemory("api500") EXCEPT !.freshness = 902, !.recall_count = 2,
                                   !.last_recalled = 1]
RecalledThrice ==
    [LessonMemory("api500") EXCEPT !.freshness = 902, !.recall_count = 3,
                                   !.last_recalled = 1]
OldCore ==
    [LessonMemory("checkapi") EXCEPT !.type = "core", !.freshness = 96,
                                     !.recall_count = 5, !.last_recalled = 1]
Archived ==
    [FactMemory("askbeth") EXCEPT !.type = "archive", !.freshness = 96,
                                  !.sessions_since_recall = 46]

DecayTables ==
    { <<Fading>>, <<RecalledTwice>>, <<OldCore>>, <<Archived>>,
      <<RecalledThrice, Fading, OldCore, Archived>> }

\* One earlier session of "max" is closed; the first command starts at time 2
InitDecay ==
    /\ \E rows \in DecayTables :
          memories = [a \in AGENT_SCHEMAS |-> IF a = "max" THEN rows ELSE <<>>]
    /\ co_occurrences = [a \in AGENT_SCHEMAS |-> {}]
    /\ kv = [a \in AGENT_SCHEMAS |-> KvNone]
    /\ q_value_history = [a \in AGENT_SCHEMAS |-> <<>>]
    /\ sessions = [a \in AGENT_SCHEMAS |->
                      IF a = "max" THEN <<[started_at |-> 1, ended_at |-> 1]>>
                      ELSE <<>>]
    /\ agent_registry = [a \in AGENT_SCHEMAS |-> IF a = "max" THEN 1 ELSE 0]
    /\ shared = <<>>
    /\ pc = "idle"
    /\ run = NewRun("none", "none")
    /\ exit_status = "none"
    /\ preamble = <<>>
    /\ clock = 1
    /\ nfaults = 0
    /\ ex = [lines |-> <<>>, max_chars |-> 0, output |-> <<>>, done |-> FALSE]
    /\ bot = NoBot

SpecDecay == InitDecay /\ [][Next]_vars

-----------------------------------------------------------------------------
(* The preamble specification: wakes on namespaces that earlier sessions   *)
(* have filled, with and without a self-narrative and active goals.        *)

\* A lesson an earlier sleep rewarded after a wake had recalled it
Rewarded ==
    [LessonMemory("api500") EXCEPT !.q_value = 650, !.recall_count = 1,
                                   !.last_recalled = 1]

\* A fact promoted by an earlier maintenance
CoreFact(fact) == [FactMemory(fact) EXCEPT !.type = "core", !.recall_count = 5,
                                           !.last_recalled = 1]

WakeTables ==
    { <<Rewarded>>, <<OldCore>>, <<Fading, OldCore>>,
      <<OldCore, CoreFact("port"), CoreFact("queue"), CoreFact("deploy"),
        Rewarded>> }

\* "max" has slept before, "debater" perhaps; what "debater" shared is in
\* SHARED
InitPreamble ==
    /\ \E rows \in WakeTables, theirs \in {<<>>, <<RecalledTwice>>} :
          memories = [a \in AGENT_SCHEMAS |->
                         IF a = "max" THEN rows
                         ELSE IF a = "debater" THEN theirs ELSE <<>>]
    /\ co_occurrences = [a \in AGENT_SCHEMAS |-> {}]
    /\ kv = [a \in AGENT_SCHEMAS |-> KvNone]
    /\ q_value_history = [a \in AGENT_SCHEMAS |-> <<>>]
    /\ sessions = [a \in AGENT_SCHEMAS |->
                      IF memories[a] # <<>>
                      THEN <<[started_at |-> 1, ended_at |-> 1]>> ELSE <<>>]
    /\ agent_registry = [a \in AGENT_SCHEMAS |-> IF memories[a] # <<>> THEN 1 ELSE 0]
    /\ shared \in {<<>>} \cup
                  (IF memories["debater"] # <<>>
                   THEN {SharedRows("debater", Parsed(<<>>, <<"checkapi">>, <<>>))}
                   ELSE {})
    /\ pc = "idle"
    /\ run = NewRun("none", "none")
    /\ exit_status = "none"
    /\ preamble = <<>>
    /\ clock = 1
    /\ nfaults = 0
    /\ ex = [lines |-> <<>>, max_chars |-> 0, output |-> <<>>, done |-> FALSE]
    /\ bot = NoBot

NextPreamble ==
    \E agent \in RunAgents, narrative \in BOOLEAN, goals \in BOOLEAN :
        WakeWith(agent, narrative, goals)

SpecPreamble == InitPreamble /\ [][NextPreamble]_vars

-----------------------------------------------------------------------------
(* The concurrent specification: one wake process and one sleep process of *)
(* the same namespace, each a separate invocation of main.  The source     *)
(* holds no lock, lock file or advisory lock, so the two processes         *)
(* interleave at their database calls.  pc and run are, here, functions    *)
(* of the process.                                                         *)

MaxConcCmds == 4      \* invocations started in one concurrent behaviour

\* What the summariser's output of the concurrent sleep parses to
ConcParsed == Parsed(<<>>, <<"checkapi">>, <<>>)

\* The namespace after a sleep, and after a sleep and a wake
ConcLesson == LessonMemory("api500")

InitConc ==
    /\ \E woken \in BOOLEAN :
          /\ memories = [a \in AGENT_SCHEMAS |->
                            IF a = "max"
                            THEN <<IF woken THEN Recalled(ConcLesson, 1) ELSE ConcLesson>>
                            ELSE <<>>]
          /\ kv = [a \in AGENT_SCHEMAS |->
                      IF a = "max" /\ woken THEN KvIds({1}, 1) ELSE KvNone]
    /\ co_occurrences = [a \in AGENT_SCHEMAS |-> {}]
    /\ q_value_history = [a \in AGENT_SCHEMAS |-> <<>>]
    /\ sessions = [a \in AGENT_SCHEMAS |->
                      IF a = "max" THEN <<[started_at |-> 1, ended_at |-> 1]>>
                      ELSE <<>>]
    /\ agent_registry = [a \in AGENT_SCHEMAS |-> IF a = "max" THEN 1 ELSE 0]
    /\ shared = <<>>
    /\ pc = [wake |-> "idle", sleep |-> "idle"]
    /\ run = [wake |-> [ids |-> {}, now |-> 0],
              sleep |-> [wake_data |-> KvNone, stored_ids |-> <<>>, session_id |-> 0]]
    /\ exit_status = "none"
    /\ preamble = <<>>
    /\ clock = 1
    /\ nfaults = 0
    /\ ex = [lines |-> <<>>, max_chars |-> 0, output |-> <<>>, done |-> FALSE]
    /\ bot = NoBot

\* wake, lines 105-164: the list queries; recalled_ids is in hand
ConcWakeList ==
    /\ pc.wake = "idle"
    /\ clock < MaxConcCmds
    /\ clock' = clock + 1
    /\ LET rows == memories["max"]
       IN  \E lessons \in LessonQuery(rows) :
              run' = [run EXCEPT !.wake =
                         [ids |-> SeqToSet(list_memories(rows, "active", RECENT_LIMIT)
                                           \o list_memories(rows, "core", CORE_LIMIT)
                                           \o lessons),
                          now |-> clock + 1]]
    /\ pc' = [pc EXCEPT !.wake = "recall"]
    /\ UNCHANGED <<storeVars, shared, exit_status, preamble, nfaults, ex, bot>>

\* wake, lines 166-180: the recall UPDATE
ConcWakeRecall ==
    /\ pc.wake = "recall"
    /\ memories' = [memories EXCEPT !["max"] =
                       RecallUpdate(@, run.wake.ids, run.wake.now)]
    /\ pc' = [pc EXCEPT !.wake = "kv_set"]
    /\ UNCHANGED <<co_occurrences, kv, q_value_history, sessions, agent_registry,
                   shared, run, exit_status, preamble, clock, nfaults, ex, bot>>

\* wake, lines 182-189: db.kv_set(KV_WAKE_RETRIEVED, {'ids': ..., 'timestamp': ...})
ConcWakeKvSet ==
    /\ pc.wake = "kv_set"
    /\ kv' = [kv EXCEPT !["max"] = KvIds(run.wake.ids, run.wake.now)]
    /\ pc' = [pc EXCEPT !.wake = "idle"]
    /\ UNCHANGED <<memories, co_occurrences, q_value_history, sessions,
                   agent_registry, shared, run, exit_status, preamble, clock,
                   nfaults, ex, bot>>

\* sleep, lines 335-387: the session starts, the parsed lesson is stored and
\* offered to the shared namespace
ConcSleepStore ==
    /\ pc.sleep = "idle"
    /\ clock < MaxConcCmds
    /\ clock' = clock + 1
    /\ sessions' = [sessions EXCEPT !["max"] =
                       Append(@, [started_at |-> clock + 1, ended_at |-> 0])]
    /\ InsertMemory("max", gen_id("max"),
                    embed_memory(ItemsToStore(ConcParsed)[1], TRUE))
    /\ shared' = shared \o SharedRows("max", ConcParsed)
    /\ run' = [run EXCEPT !.sleep = [wake_data |-> KvNone,
                                     stored_ids |-> <<gen_id("max")>>,
                                     session_id |-> Len(sessions'["max"])]]
    /\ pc' = [pc EXCEPT !.sleep = "kv_get"]
    /\ UNCHANGED <<co_occurrences, kv, q_value_history, agent_registry,
                   exit_status, preamble, nfaults, ex, bot>>

\* _sleep_qvalue_update, lines 459-470: wake_data = db.kv_get(KV_WAKE_RETRIEVED)
ConcSleepKvGet ==
    /\ pc.sleep = "kv_get"
    /\ LET wake_data == kv["max"]
       IN  IF wake_data.value = "None" \/ wake_data.ids = {}
           THEN /\ pc' = [pc EXCEPT !.sleep = "decay"]
                /\ UNCHANGED run
           ELSE /\ pc' = [pc EXCEPT !.sleep = "q_update"]
                /\ run' = [run EXCEPT !.sleep.wake_data = wake_data]
    /\ UNCHANGED <<storeVars, shared, exit_status, preamble, clock, nfaults, ex, bot>>

\* _sleep_qvalue_update, lines 472-500: the Q-values of the ids read are
\* updated and logged in one transaction
ConcSleepQUpdate ==
    /\ pc.sleep = "q_update"
    /\ LET rows == memories["max"]
           ids == run.sleep.wake_data.ids
           retrieved_ids == SortedSeq(ids)
           reward == IF Len(run.sleep.stored_ids) > 0
                     THEN REWARD_DOWNSTREAM ELSE REWARD_DEAD_END
           reward_source == IF Len(run.sleep.stored_ids) > 0
                            THEN "downstream" ELSE "dead_end"
       IN  /\ memories' = [memories EXCEPT !["max"] =
                  [id \in DOMAIN rows |->
                      IF id \in ids
                      THEN [rows[id] EXCEPT !.q_value = update_q(@, reward)]
                      ELSE rows[id]]]
           /\ q_value_history' = [q_value_history EXCEPT !["max"] =
                  @ \o [i \in 1..Len(retrieved_ids) |->
                           QHistoryRow(retrieved_ids[i], run.sleep.session_id,
                                       QValueOf(rows, retrieved_ids[i]),
                                       update_q(QValueOf(rows, retrieved_ids[i]), reward),
                                       reward, reward_source)]]
    /\ pc' = [pc EXCEPT !.sleep = "kv_clear"]
    /\ UNCHANGED <<co_occurrences, kv, sessions, agent_registry, shared, run,
                   exit_status, preamble, clock, nfaults, ex, bot>>

\* _sleep_qvalue_update, line 503: db.kv_set(KV_WAKE_RETRIEVED, None)
ConcSleepKvClear ==
    /\ pc.sleep = "kv_clear"
    /\ kv' = [kv EXCEPT !["max"] = KvNone]
    /\ pc' = [pc EXCEPT !.sleep = "decay"]
    /\ UNCHANGED <<memories, co_occurrences, q_value_history, sessions,
                   agent_registry, shared, run, exit_status, preamble, clock,
                   nfaults, ex, bot>>

\* sleep, lines 404-412: maintenance, _sleep_finalize, return True
ConcSleepDecay ==
    /\ pc.sleep = "decay"
    /\ memories' = [memories EXCEPT !["max"] =
                       [id \in DOMAIN @ |->
                           Maintained(@[id], LastSessionEnd(sessions["max"]))]]
    /\ sleep_finalize("max", run.sleep.session_id, sessions, TRUE, clock)
    /\ pc' = [pc EXCEPT !.sleep = "idle"]
    /\ UNCHANGED <<co_occurrences, kv, q_value_history, shared, run,
                   exit_status, preamble, clock, nfaults, ex, bot>>

NextConc ==
    \/ ConcWakeList
    \/ ConcWakeRecall
    \/ ConcWakeKvSet
    \/ ConcSleepStore
    \/ ConcSleepKvGet
    \/ ConcSleepQUpdate
    \/ ConcSleepKvClear
    \/ ConcSleepDecay

SpecConc == InitConc /\ [][NextConc]_vars

-----------------------------------------------------------------------------
(* The credit specification: wake and sleep commands on a namespace that   *)
(* an earlier sleep has filled and, perhaps, an earlier wake has recalled, *)
(* so that the first sleep finds ids to reward.                            *)

InitCredit ==
    /\ \E woken \in BOOLEAN :
          /\ memories = [a \in AGENT_SCHEMAS |->
                            IF a = "max"
                            THEN <<IF woken THEN Recalled(ConcLesson, 1) ELSE ConcLesson>>
                            ELSE <<>>]
          /\ kv = [a \in AGENT_SCHEMAS |->
                      IF a = "max" /\ woken THEN KvIds({1}, 1) ELSE KvNone]
    /\ co_occurrences = [a \in AGENT_SCHEMAS |-> {}]
    /\ q_value_history = [a \in AGENT_SCHEMAS |-> <<>>]
    /\ sessions = [a \in AGENT_SCHEMAS |->
                      IF a = "max" THEN <<[started_at |-> 1, ended_at |-> 1]>>
                      ELSE <<>>]
    /\ agent_registry = [a \in AGENT_SCHEMAS |-> IF a = "max" THEN 1 ELSE 0]
    /\ shared = <<>>
    /\ pc = "idle"
    /\ run = NewRun("none", "none")
    /\ exit_status = "none"
    /\ preamble = <<>>
    /\ clock = 1
    /\ nfaults = 0
    /\ ex = [lines |-> <<>>, max_chars |-> 0, output |-> <<>>, done |-> FALSE]
    /\ bot = NoBot

SpecCredit == InitCredit /\ [][Next]_vars

-----------------------------------------------------------------------------
(* The wakes specification: the pipeline on a namespace of four core       *)
(* lessons of equal emotional_weight, after a first wake.                  *)
(* list_memories(type='core', limit=3) gives the three newest; the lesson  *)
(* query may give any three of the four, so that the first wake recalled   *)
(* ids 2..4 or all four, and a later wake can recall other ids than it.    *)

CoreLesson(lesson) == [LessonMemory(lesson) EXCEPT !.type = "core"]

InitWakes ==
    /\ \E first \in {{2, 3, 4}, {1, 2, 3, 4}} :
          /\ memories = [a \in AGENT_SCHEMAS |->
                            IF a = "max"
                            THEN [id \in 1..4 |->
                                     IF id \in first
                                     THEN Recalled(CoreLesson("api500"), 1)
                                     ELSE CoreLesson("api500")]
                            ELSE <<>>]
          /\ kv = [a \in AGENT_SCHEMAS |->
                      IF a = "max"
                      THEN [value |-> "dict", ids |-> first, timestamp |-> 1]
                      ELSE KvNone]
    /\ co_occurrences = [a \in AGENT_SCHEMAS |-> {}]
    /\ q_value_history = [a \in AGENT_SCHEMAS |-> <<>>]
    /\ sessions = [a \in AGENT_SCHEMAS |->
                      IF a = "max" THEN <<[started_at |-> 0, ended_at |-> 0]>>
                      ELSE <<>>]
    /\ agent_registry = [a \in AGENT_SCHEMAS |-> 0]
    /\ shared = <<>>
    /\ pc = "idle"
    /\ run = NewRun("none", "none")
    /\ exit_status = "none"
    /\ preamble = <<>>
    /\ clock = 1
    /\ nfaults = 0
    /\ ex = [lines |-> <<>>, max_chars |-> 0, output |-> <<>>, done |-> FALSE]
    /\ bot = NoBot

\* The commands are those of the agent that owns the namespace
NextWakes ==
    \/ Wake("max")
    \/ SleepStart("max")
    \/ SleepSummarize
    \/ StoreItem
    \/ LinkCoOccurrences
    \/ CrossPollinate
    \/ SleepQValueUpdate
    \/ SleepAffectUpdate
    \/ SleepKnowledgeGraph
    \/ SleepLessonExtraction
    \/ SleepGoalEvaluation
    \/ SleepDecay
    \/ SleepFinalize

SpecWakes == InitWakes /\ [][NextWakes]_vars

-----------------------------------------------------------------------------
(* The share specification: _cross_pollinate called by any of the four     *)
(* agents on parsed records drawn from the lexicon.                        *)

\* Inputs: the records of the pipeline, and records whose thread, lesson and
\* fact carry an opinion phrase next to a whitelist keyword or an agent's
\* name, the name of the debater, a whitelist keyword alone, or the name of
\* max or susan alone
ShareChoices ==
    ParsedChoices
    \cup { Parsed(<<Thread("verdictapi", "askbeth", "completed")>>,
                  <<"verdictapi">>, <<"verdictapi">>),
           Parsed(<<Thread("askdebater", "api500", "blocked")>>,
                  <<"voted">>, <<"askdebater">>),
           Parsed(<<Thread("deploy", "api500", "completed")>>,
                  <<"port">>, <<"api500">>),
           Parsed(<<Thread("deploy", "askmax", "completed")>>,
                  <<>>, <<"asksusan">>) }

\* _cross_pollinate(agent, parsed)
CrossPollinateCall(agent, parsed) ==
    /\ pc = "idle"
    /\ clock < MaxShareSleeps
    /\ clock' = clock + 1
    /\ \E share_ok \in BOOLEAN :
          LET rows == SharedRows(agent, parsed)
          IN  /\ rows = <<>> => share_ok
              /\ MayFail(share_ok)
              /\ shared' = Transaction(share_ok, shared, shared \o rows)
    /\ run' = [NewRun("cross_pollinate", agent) EXCEPT !.parsed = parsed]
    /\ UNCHANGED <<memories, co_occurrences, kv, q_value_history, sessions,
                   agent_registry, pc, exit_status, preamble, ex, bot>>

NextShare ==
    \E agent \in AGENT_SCHEMAS, parsed \in ShareChoices :
        CrossPollinateCall(agent, parsed)

SpecShare == Init /\ [][NextShare]_vars

-----------------------------------------------------------------------------
(* The extractor specification: _extract_from_log on every transcript of   *)
(* at most MaxLines lines of the lexicon and every max_chars up to         *)
(* MaxMaxChars.                                                            *)

Transcripts == UNION { [1..n -> LineNames] : n \in 0..MaxLines }

InitExtract ==
    /\ memories = [a \in AGENT_SCHEMAS |-> <<>>]
    /\ co_occurrences = [a \in AGENT_SCHEMAS |-> {}]
    /\ kv = [a \in AGENT_SCHEMAS |-> KvNone]
    /\ q_value_history = [a \in AGENT_SCHEMAS |-> <<>>]
    /\ sessions = [a \in AGENT_SCHEMAS |-> <<>>]
    /\ agent_registry = [a \in AGENT_SCHEMAS |-> 0]
    /\ shared = <<>>
    /\ pc = "idle"
    /\ run = NewRun("none", "none")
    /\ exit_status = "none"
    /\ preamble = <<>>
    /\ clock = 0
    /\ nfaults = 0
    /\ \E lines \in Transcripts, max_chars \in 0..MaxMaxChars :
          ex = [lines |-> lines, max_chars |-> max_chars, output |-> <<>>,
                done |-> FALSE]
    /\ bot = NoBot

\* session_text = _extract_from_log(transcript_path, max_chars)
Extract ==
    /\ ~ex.done
    /\ ex' = [ex EXCEPT !.output = extract_from_log(ex.lines, ex.max_chars),
                        !.done = TRUE]
    /\ UNCHANGED <<memories, co_occurrences, kv, q_value_history, sessions,
                   agent_registry, shared, pc, run, exit_status, preamble,
                   clock, nfaults, bot>>

NextExtract == Extract

SpecExtract == InitExtract /\ [][NextExtract]_vars

-----------------------------------------------------------------------------
(* The bridge specification: the agent runtime appends completions to an   *)
(* agent's done.jsonl while the bot's check_completions polls it.          *)

MaxCompletions == 5

\* Whatever the bot and the runtime do, the memory store is left alone
BridgeFrame ==
    UNCHANGED <<storeVars, shared, pc, run, exit_status, preamble, clock,
                nfaults, ex>>

\* The agent runtime appends a completion object to done.jsonl, creating the
\* file if there is none
RuntimeAppend ==
    /\ bot.appended < MaxCompletions
    /\ bot' = [bot EXCEPT !.appended = @ + 1,
                          !.lines = Append(@, bot.appended + 1),
                          !.exists = TRUE]
    /\ BridgeFrame

\* check_completions, lines 148-162: a file that exists and is not empty is
\* read into entries
CheckCompletionsRead ==
    /\ bot.pc = "poll"
    /\ bot.exists /\ bot.lines # <<>>
    /\ bot' = [bot EXCEPT !.entries = bot.lines, !.sent = 0, !.pc = "send"]
    /\ BridgeFrame

\* check_completions, lines 164-190: await channel.send(full) for the next
\* entry
CheckCompletionsSend ==
    /\ bot.pc = "send"
    /\ bot.sent < Len(bot.entries)
    /\ bot' = [bot EXCEPT !.sent = @ + 1,
                          !.posted = @ \cup {bot.entries[bot.sent + 1]}]
    /\ BridgeFrame

\* check_completions, lines 192-193: dpath.unlink() after the last entry
CheckCompletionsUnlink ==
    /\ bot.pc = "send"
    /\ bot.sent = Len(bot.entries)
    /\ bot' = [bot EXCEPT !.exists = FALSE, !.lines = <<>>, !.entries = <<>>,
                          !.sent = 0, !.pc = "poll"]
    /\ BridgeFrame

NextBot ==
    \/ RuntimeAppend
    \/ CheckCompletionsRead
    \/ CheckCompletionsSend
    \/ CheckCompletionsUnlink

\* tasks.loop(seconds=15) starts check_completions again and again, and the
\* event loop resumes it after every await: no step of the bot waits for ever
SpecBot ==
    /\ Init
    /\ [][NextBot]_vars
    /\ WF_vars(CheckCompletionsRead)
    /\ WF_vars(CheckCompletionsSend)
    /\ WF_vars(CheckCompletionsUnlink)

\* check_completions, line 191: await channel.send(full) raises.  Nothing
\* in the loop body catches it: the pass over the entries ends there, line
\* 194 is not reached and done.jsonl stays as it was; tasks.loop runs
\* check_completions again after a connection error
CheckCompletionsSendRaises ==
    /\ bot.pc = "send"
    /\ bot.sent < Len(bot.entries)
    /\ nfaults < MaxFaults
    /\ nfaults' = nfaults + 1
    /\ bot' = [bot EXCEPT !.entries = <<>>, !.sent = 0, !.pc = "poll"]
    /\ UNCHANGED <<storeVars, shared, pc, run, exit_status, preamble, clock, ex>>

\* The bridge with sends that may raise
NextPosts ==
    \/ RuntimeAppend
    \/ CheckCompletionsRead
    \/ CheckCompletionsSend
    \/ CheckCompletionsSendRaises
    \/ CheckCompletionsUnlink

SpecPosts == Init /\ [][NextPosts]_vars

-----------------------------------------------------------------------------
(* The queue specification: on_message routes Discord messages to the      *)
(* agents' queue.jsonl files, which the agent runtime consumes.            *)

MaxMessages == 2      \* messages on_message handles in one behaviour

\* AGENTS, in the order of the list
AGENTS == <<"max", "beth", "susan", "debater">>

\* ALIASES: (prefix, agent), in the order of the dict
ALIASES ==
    << <<<<"m","a","x">>, "max">>,
       <<<<"m","a","x","_","a","n","v","i","l">>, "max">>,
       <<<<"a","n","v","i","l">>, "max">>,
       <<<<"b","e","t","h">>, "beth">>,
       <<<<"b","e","t","h","a","n","y">>, "beth">>,
       <<<<"f","i","n","k","e","l">>, "beth">>,
       <<<<"s","u","s","a","n">>, "susan">>,
       <<<<"c","a","s","i","o","d","e","g","a">>, "susan">>,
       <<<<"j","u","d","g","e">>, "susan">>,
       <<<<"d","e","b">>, "debater">>,
       <<<<"d","e","b","a","t","e","r">>, "debater">>,
       <<<<"g","r","e","a","t","_","d","e","b","a","t","e","r">>, "debater">>,
       <<<<"t","h","e","_","g","r","e","a","t","_","d","e","b","a","t","e","r">>, "debater">>,
       <<<<"d","e","b","a","t","e">>, "debater">>,
       <<<<"a","l","l">>, "all">> >>

\* sorted(ALIASES, key=len, reverse=True): the longest prefix first, prefixes
\* of equal length in the order of the dict
RECURSIVE SortedByLen(_)
SortedByLen(aliases) ==
    IF aliases = <<>> THEN <<>>
    ELSE LET n == Len(aliases)
             init == SortedByLen(SubSeq(aliases, 1, n - 1))
             k == Cardinality({i \in DOMAIN init :
                                  Len(init[i][1]) >= Len(aliases[n][1])})
         IN  SubSeq(init, 1, k) \o <<aliases[n]>> \o SubSeq(init, k + 1, n - 1)

\* for prefix in sorted(ALIASES, key=len, reverse=True)
SORTED_PREFIXES == SortedByLen(ALIASES)

\* A plausible slip: only the colon taken as a separator
SEPARATORS_ColonOnly == <<":">>

\* for sep in (":", ",")
SEPARATORS == <<":", ",">>

\* Inputs: the contents of the messages and the names of the channels
MESSAGES ==
       "maxgo" :> <<"m","a","x",":"," ","g","o">>
    @@ "MaxGo" :> <<"M","a","x",","," ","g","o">>
    @@ "allhi" :> <<" ","a","l","l",":"," ","h","i"," ">>
    @@ "debempty" :> <<"d","e","b",":"," "," ">>
    @@ "blank" :> <<" "," ">>
    @@ "hello" :> <<"h","e","l","l","o">>
    @@ "debatex" :> <<"d","e","b","a","t","e",":","x">>
    @@ "maxine" :> <<"m","a","x","i","n","e",":"," ","h","i">>
    @@ "tgd" :> <<"T","h","e","_","G","r","e","a","t","_","D","e","b","a","t","e","r",","," ","a">>

CHANNELS ==
       "general" :> <<"g","e","n","e","r","a","l">>
    @@ "maxtasks" :> <<"m","a","x","-","t","a","s","k","s">>
    @@ "SusanMax" :> <<"S","u","s","a","n","-","M","a","x">>

\* Inputs: channel ids; ALLOWED_CHANNELS is empty or holds the first
ChannelIds == {1, 2}

\* parse_agent(text): the agent of the first prefix + separator the lowercase
\* text starts with and the rest of the text, stripped; (None, text) if none
parse_agent(text) ==
    LET lower == Lower(text)
        prefixes == SORTED_PREFIXES
        Hit(i, j) == StartsWith(lower, prefixes[i][1] \o <<SEPARATORS[j]>>)
        hits == {i \in DOMAIN prefixes : \E j \in DOMAIN SEPARATORS : Hit(i, j)}
    IN  IF hits = {} THEN [agent |-> "None", task |-> text]
        ELSE LET i == CHOOSE i \in hits : \A k \in hits : i <= k
             IN  [agent |-> prefixes[i][2],
                  task |-> Strip(PySuffix(text, Len(prefixes[i][1]) + 1))]

\* The loop over AGENTS, lines 119-124: the first agent whose name is in the
\* lowercase channel name
ChannelAgent(chan) ==
    LET hits == {i \in DOMAIN AGENTS : Contains(AgentChars[AGENTS[i]], Lower(chan))}
    IN  IF hits = {} THEN "None"
        ELSE AGENTS[CHOOSE i \in hits : \A k \in hits : i <= k]

\* queue_task: the entry appended to the agent's queue.jsonl
QueueEntry(task, author, channel_id, message_id) ==
    [task |-> task, from |-> author, channel_id |-> channel_id,
     message_id |-> message_id]

\* on_message, lines 104-135: how the handler ends for a message, and the
\* agents whose queue gets the task
Routed(from_bot, allowed, channel_id, chan, content) ==
    LET text == Strip(content)
        parsed == parse_agent(text)
        by_name == ChannelAgent(chan)
        agent == IF parsed.agent # "None" THEN parsed.agent ELSE by_name
        task == IF parsed.agent # "None" THEN parsed.task ELSE text
    IN  IF from_bot THEN [end |-> "from_bot", targets |-> <<>>, task |-> <<>>]
        ELSE IF allowed # {} /\ channel_id \notin allowed
        THEN [end |-> "other_channel", targets |-> <<>>, task |-> <<>>]
        ELSE IF text = <<>> THEN [end |-> "no_text", targets |-> <<>>, task |-> <<>>]
        ELSE IF agent = "None" THEN [end |-> "which_agent", targets |-> <<>>, task |-> <<>>]
        ELSE IF task = <<>> THEN [end |-> "no_task", targets |-> <<>>, task |-> <<>>]
        ELSE [end |-> "queued",
              targets |-> IF agent = "all" THEN AGENTS ELSE <<agent>>,
              task |-> task]

\* on_message(message): the message of a user ("ann") or of a bot, in a
\* channel, with a content
OnMessage(from_bot, channel_id, chan, content) ==
    /\ bot.msgs < MaxMessages
    /\ LET r == Routed(from_bot, bot.allowed, channel_id, CHANNELS[chan],
                       MESSAGES[content])
           id == bot.msgs + 1
           entry == QueueEntry(r.task, "ann", channel_id, id)
       IN  bot' = [bot EXCEPT
                      !.msgs = id,
                      !.queue = [a \in AGENT_SCHEMAS |->
                                    IF \E i \in DOMAIN r.targets : r.targets[i] = a
                                    THEN Append(bot.queue[a], entry)
                                    ELSE bot.queue[a]],
                      !.last = [from_bot |-> from_bot, channel_id |-> channel_id,
                                chan |-> chan, content |-> content,
                                end |-> r.end]]
    /\ BridgeFrame

\* The agent runtime takes the tasks of its queue.jsonl and removes the file
RuntimeConsume(agent) ==
    /\ bot.queue[agent] # <<>>
    /\ bot' = [bot EXCEPT !.queue[agent] = <<>>]
    /\ BridgeFrame

\* The bot is started with DISCORD_CHANNEL_IDS unset, or set to channel 1
InitQueue ==
    /\ memories = [a \in AGENT_SCHEMAS |-> <<>>]
    /\ co_occurrences = [a \in AGENT_SCHEMAS |-> {}]
    /\ kv = [a \in AGENT_SCHEMAS |-> KvNone]
    /\ q_value_history = [a \in AGENT_SCHEMAS |-> <<>>]
    /\ sessions = [a \in AGENT_SCHEMAS |-> <<>>]
    /\ agent_registry = [a \in AGENT_SCHEMAS |-> 0]
    /\ shared = <<>>
    /\ pc = "idle"
    /\ run = NewRun("none", "none")
    /\ exit_status = "none"
    /\ preamble = <<>>
    /\ clock = 0
    /\ nfaults = 0
    /\ ex = [lines |-> <<>>, max_chars |-> 0, output |-> <<>>, done |-> FALSE]
    /\ \E allowed \in {{}, {1}} : bot = [NoBot EXCEPT !.allowed = allowed]

NextQueue ==
    \/ \E from_bot \in BOOLEAN, channel_id \in ChannelIds,
          chan \in DOMAIN CHANNELS, content \in DOMAIN MESSAGES :
           OnMessage(from_bot, channel_id, chan, content)
    \/ \E agent \in AGENT_SCHEMAS : RuntimeConsume(agent)

SpecQueue == InitQueue /\ [][NextQueue]_vars

-----------------------------------------------------------------------------
(* Properties.                                                             *)

\* A sleep command has returned
SleepDone == pc = "idle" /\ run.cmd = "sleep"

\* The lowercase form of the text contains a phrase of the opinion vocabulary
HasOpinionPhrase(text) ==
    \E kw \in DEBATE_OPINION_KEYWORDS : Contains(kw, Lower(text))

\* The rows of q_value_history a sleep wrote for one memory
HistoryRows(agent, session_id, memory_id, reward_source) ==
    { i \in DOMAIN q_value_history[agent] :
        /\ q_value_history[agent][i].memory_id = memory_id
        /\ q_value_history[agent][i].session_id = session_id
        /\ q_value_history[agent][i].reward_source = reward_source }

\* C1: after a sleep has finished on any of its paths (too short, summariser
\* failure, unusable output, empty parse, successful ingest) and no storage
\* call failed, the KV slot .wake_retrieved_ids of the namespace is empty.
C1_KvEmptyAfterSleep ==
    (SleepDone /\ run.path # "no_transcript" /\ nfaults = 0)
        => kv[run.agent].ids = {}

\* C2: when a sleep finishes having created no memory while the KV slot held
\* a non-empty id list, every id of the list has one Q-history row of that
\* sleep with reward_source 'dead_end', and a Q that started at 0.5 is <= 0.5.
C2_DeadEndReward ==
    (SleepDone /\ run.path # "no_transcript" /\ nfaults = 0
               /\ run.created = {} /\ run.kv_before # {})
        => \A id \in run.kv_before :
              /\ run.q_before[id] = DEFAULT_Q
                    => memories[run.agent][id].q_value <= DEFAULT_Q
              /\ Cardinality(HistoryRows(run.agent, run.session_id, id,
                                         "dead_end")) = 1

\* C3, as the spec states it: a sleep exits 0 if and only if it stored at
\* least one new memory in the namespace.
C3_ExitZeroIffStored ==
    (SleepDone /\ nfaults = 0) => (exit_status = 0 <=> run.created # {})

\* C3, amended: a sleep exits 0 if and only if the summariser output parsed
\* to at least one item and every parsed item was stored; a raw-fallback
\* sleep stores a memory and exits 1.
C3_ExitZeroIffIngested ==
    SleepDone =>
        (exit_status = 0 <=> /\ NumItems(run.parsed) > 0
                             /\ Len(run.stored_ids) = NumItems(run.parsed))

C3_Witness_FallbackExitsOne ==
    SleepDone /\ run.path = "fallback" /\ run.created # {} /\ exit_status = 1

\* C4, as the spec states it: no row of shared.memories has a content, as
\* stored with its author prefix, whose lowercase form contains a phrase of
\* the opinion vocabulary.
C4_NoOpinionPhraseInContent ==
    \A i \in DOMAIN shared : ~HasOpinionPhrase(SharedContent(shared[i]))

\* C4, amended: the content of a row written by max, beth or susan contains
\* no phrase of the opinion vocabulary; of a row written by debater, whose
\* author prefix "[The Great Debater] " contains 'debate', the content after
\* the prefix contains none.
C4_NoOpinionPhraseOutsideDebaterPrefix ==
    \A i \in DOMAIN shared :
        IF shared[i].created_by = "debater"
        THEN /\ HasOpinionPhrase(AuthorPrefix("debater"))
             /\ ~HasOpinionPhrase(ItemBody(shared[i].item))
        ELSE ~HasOpinionPhrase(SharedContent(shared[i]))

C4_Witness_DebaterAndOtherRows ==
    \E i, j \in DOMAIN shared :
        shared[i].created_by = "debater" /\ shared[j].created_by # "debater"

\* C5: the block filter comes before the whitelist for threads, lessons and
\* facts: no row of shared.memories was made from an item whose checked text
\* (summary + ' ' + name of a thread, the text of a lesson or fact) contains
\* a phrase of the opinion vocabulary, whatever else the text contains.
C5_BlockFilterFirst ==
    \A i \in DOMAIN shared :
        LET item == shared[i].item
        IN  IF item.kind = "Thread"
            THEN ~HasOpinionPhrase(TEXT[item.text] \o <<" ">> \o TEXT[item.name])
            ELSE ~HasOpinionPhrase(TEXT[item.text])

\* A lesson with both an opinion phrase and a whitelist keyword was given to
\* _cross_pollinate, the insert did not fail, and nothing was shared
C5_Witness_BlockedDespiteWhitelist ==
    /\ run.cmd = "cross_pollinate"
    /\ nfaults = 0
    /\ shared = <<>>
    /\ \E i \in DOMAIN run.parsed.lessons :
          /\ HasOpinionPhrase(TEXT[run.parsed.lessons[i]])
          /\ \E kw \in LESSON_SHARE_KEYWORDS :
                Contains(kw, Lower(TEXT[run.parsed.lessons[i]]))

\* C6: after a wake on a namespace with at least one memory (and no failed
\* storage call), the id set in KV .wake_retrieved_ids is exactly the set of
\* ids of the memories with a line in the recent, core and lesson sections.
C6_KvIdsAreShownIds ==
    (pc = "idle" /\ run.cmd = "wake" /\ run.path = "ok" /\ nfaults = 0)
        => kv[run.agent].ids =
              { preamble[i].id :
                  i \in { j \in DOMAIN preamble :
                            preamble[j].sec \in {"recent", "core", "lesson"} } }

\* C7: if a wake surfaced ids that all have Q = 0.5 and the sleep that
\* follows creates at least one memory, then after the sleep every one of
\* the ids has Q > 0.5, all raised by the same delta, and exactly one
\* Q-history row of that sleep with reward_source 'downstream'.
C7_DownstreamReward ==
    (SleepDone /\ nfaults = 0 /\ run.after_wake /\ run.kv_before # {}
               /\ run.created # {}
               /\ \A id \in run.kv_before : run.q_before[id] = DEFAULT_Q)
        => \A id \in run.kv_before :
              /\ memories[run.agent][id].q_value > DEFAULT_Q
              /\ \A other \in run.kv_before :
                    memories[run.agent][other].q_value
                        = memories[run.agent][id].q_value
              /\ Cardinality(HistoryRows(run.agent, run.session_id, id,
                                         "downstream")) = 1

\* C8: in every reachable state, every co-occurrence row (a, b, count) has
\* a # b and the row (b, a) exists with the same count, also after a sleep
\* whose co-occurrence linking failed.
C8_CoOccurrenceSymmetric ==
    \A agent \in AGENT_SCHEMAS :
        \A r \in co_occurrences[agent] :
            /\ r.memory_id # r.other_id
            /\ \E r2 \in co_occurrences[agent] :
                  /\ r2.memory_id = r.other_id
                  /\ r2.other_id = r.memory_id
                  /\ r2.count = r.count

\* A sleep whose linking failed has finished on a namespace that has rows
C8_Witness_LinkFailedAfterLinked ==
    SleepDone /\ run.link = "failed" /\ co_occurrences[run.agent] # {}

\* A completed ingest of 2 threads, 1 lesson and 1 fact on a namespace that
\* was empty before it
IngestOfFourOnEmpty ==
    /\ SleepDone
    /\ run.path = "ingested"
    /\ Len(run.parsed.threads) = 2
    /\ Len(run.parsed.lessons) = 1
    /\ Len(run.parsed.facts) = 1
    /\ run.created = DOMAIN memories[run.agent]

\* C9, as the spec states it: such a sleep leaves exactly 4 memories and
\* exactly 6 co-occurrence rows in the namespace.
C9_FourMemoriesSixRows ==
    (IngestOfFourOnEmpty /\ nfaults = 0)
        => /\ Len(memories[run.agent]) = 4
           /\ Cardinality(co_occurrences[run.agent]) = 6

\* C9, amended: such a sleep leaves exactly 4 memories and, when its
\* co-occurrence linking succeeded, exactly 12 co-occurrence rows: two rows
\* for each of the 6 unordered pairs.
C9_FourMemoriesTwelveRows ==
    IngestOfFourOnEmpty
        => /\ Len(memories[run.agent]) = 4
           /\ run.link = "ok" => Cardinality(co_occurrences[run.agent]) = 12

C9_Witness_TwelveRows ==
    /\ IngestOfFourOnEmpty
    /\ run.link = "ok"
    /\ Cardinality(co_occurrences[run.agent]) = 12

\* C10: for every transcript and every max_chars (here: every max_chars
\* large enough for a sampled chunk, max_chars // 5, to hold a character),
\* the length of the extractor's output is at most max_chars plus the length
\* of the elision markers it inserted, on the plain-text and the JSONL path.
C10_OutputWithinMaxChars ==
    (ex.done /\ ex.max_chars \div 5 >= 1)
        => Len(ex.output) <= ex.max_chars + MarkersLen(ex.lines, ex.max_chars)

\* The memory a raw-fallback sleep inserted
FallbackDone == SleepDone /\ run.path = "fallback"
FallbackRow == memories[run.agent][CHOOSE id \in run.created : TRUE]

\* C11: the step of a sleep that takes the raw fallback (the summariser
\* raised, gave no usable output, or its output parsed to nothing) appends
\* exactly one memory to the namespace, of type active, tagged raw-excerpt,
\* with emotional_weight 0.3 and importance 0.3, and changes no other
\* memory, no other namespace and no co-occurrence row.
C11_FallbackStoresOneRawMemory ==
    [][(pc = "summarize" /\ pc' = "idle" /\ run'.path = "fallback")
          => /\ Len(memories'[run.agent]) = Len(memories[run.agent]) + 1
             /\ SubSeq(memories'[run.agent], 1, Len(memories[run.agent]))
                   = memories[run.agent]
             /\ LET row == memories'[run.agent][Len(memories'[run.agent])]
                IN  /\ row.type = "active"
                    /\ "raw-excerpt" \in row.tags
                    /\ row.emotional_weight = 300
                    /\ row.importance = 300
             /\ \A a \in AGENT_SCHEMAS \ {run.agent} : memories'[a] = memories[a]
             /\ co_occurrences' = co_occurrences
             /\ shared' = shared]_vars

C11_Witness_FallbackAfterIngest ==
    /\ FallbackDone
    /\ Len(memories[run.agent]) >= 2
    /\ co_occurrences[run.agent] # {}
    /\ FallbackRow.type = "active"
    /\ "raw-excerpt" \in FallbackRow.tags

\* session_text, whose characters are not modelled
Hashes(n) == <<>> \o [i \in 1..n |-> "#"]
ELISION == <<"\n","\n","[",".",".",".","]","\n","\n">>
FirstAndLast500(len) ==
    PyPrefix(Hashes(len), 500) \o ELISION \o PySuffix(Hashes(len), -500)
EndsWith(s, tail) ==
    /\ Len(tail) <= Len(s)
    /\ PySuffix(s, Len(s) - Len(tail)) = tail

\* C12, as the spec states it: the content of the raw-fallback memory is, after
\* its header line, the first 500 and the last 500 characters of the
\* extracted text joined by the elision marker, whatever the text's length.
C12_ContentIsFirstAndLast500 ==
    FallbackDone
        => EndsWith(Content(FallbackRow), <<"\n">> \o FirstAndLast500(run.text_len))

\* C12, amended: the content is the first 500 and the last 500 characters
\* joined by the elision marker when the extracted text is longer than 1200
\* characters, and the whole extracted text, with no marker, otherwise.
C12_ContentIsExcerptOnlyOver1200 ==
    FallbackDone
        => EndsWith(Content(FallbackRow),
                    <<"\n">> \o IF run.text_len > 1200
                                THEN FirstAndLast500(run.text_len)
                                ELSE Hashes(run.text_len))

C12_Witness_Excerpt1201 ==
    /\ FallbackDone
    /\ run.text_len = 1201
    /\ EndsWith(Content(FallbackRow), <<"#">> \o ELISION \o Hashes(500))

\* A sleep that returned True, and the phases it entered before _sleep_finalize
IngestedDone == SleepDone /\ run.path = "ingested"
PhasesBeforeFinalize == SelectSeq(run.phases, LAMBDA ph : ph # "finalize")

\* C13, as the spec states it: a successful sleep runs its phases in the
\* order store, Q-value update, affect, knowledge graph, lessons, goals,
\* decay, and last the copy to the SHARED namespace.
C13_ShareIsLastPhase ==
    IngestedDone
        => PhasesBeforeFinalize = <<"store", "qvalue", "affect", "kg", "lessons",
                                    "goals", "decay", "share">>

\* C13, amended: a successful sleep runs its phases in the order store,
\* copy to the SHARED namespace, Q-value update, affect, knowledge graph,
\* lessons, goals, decay.
C13_ShareFollowsStore ==
    IngestedDone
        => PhasesBeforeFinalize = <<"store", "share", "qvalue", "affect", "kg",
                                    "lessons", "goals", "decay">>

C13_Witness_SharedThenRewarded ==
    /\ IngestedDone
    /\ run.phases[2] = "share"
    /\ \E i \in DOMAIN shared : shared[i].created_by = run.agent
    /\ run.recalled # {}

\* The phases of sleep that run inside a failure boundary
BoundedPhases == {"share", "qvalue", "affect", "kg", "lessons", "goals", "decay"}

\* A sleep has returned whose core ingest succeeded: every parsed item stored
CoreIngestDone ==
    /\ SleepDone
    /\ NumItems(run.parsed) > 0
    /\ Len(run.stored_ids) = NumItems(run.parsed)

OpenSessions(agent) ==
    {i \in DOMAIN sessions[agent] : sessions[agent][i].ended_at = 0}

\* C15: a namespace never has more than one open session, after any
\* sequence of sleeps, whether they return early, complete, or are aborted
\* by a storage failure during ingest.
C15_AtMostOneOpenSession ==
    \A agent \in AGENT_SCHEMAS : Cardinality(OpenSessions(agent)) <= 1

\* A step of the pipeline that is a wake of a namespace with memories
WakeStep == pc = "idle" /\ run'.cmd = "wake" /\ clock' = clock + 1

HistoryOf(agent, memory_id) ==
    SelectSeq(q_value_history[agent], LAMBDA h : h.memory_id = memory_id)

\* clamp(q + 0.3 * (reward - q), 0, 1), in thousandths
ClampedStep(q, reward) ==
    LET next == q + (3 * (reward - q)) \div 10
    IN  IF next < 0 THEN 0 ELSE IF next > 1000 THEN 1000 ELSE next

\* C18: in every reachable state every memory's q_value lies in [0, 1]; a
\* memory with no history row keeps the default 0.5; each history row's
\* new_q is clamp(old_q + alpha * (reward - old_q), 0, 1), its old_q is the
\* value stored before it (the default, or the new_q of the row before),
\* and the stored q_value is the new_q of the memory's last row.
C18_QValueClampedFromStored ==
    \A agent \in AGENT_SCHEMAS :
        \A id \in DOMAIN memories[agent] :
            LET q == memories[agent][id].q_value
                hist == HistoryOf(agent, id)
            IN  /\ q >= 0 /\ q <= 1000
                /\ hist = <<>> => q = 500
                /\ hist # <<>> => q = hist[Len(hist)].new_q
                /\ \A i \in DOMAIN hist :
                      /\ hist[i].new_q = ClampedStep(hist[i].old_q, hist[i].reward)
                      /\ hist[i].old_q = IF i = 1 THEN 500 ELSE hist[i - 1].new_q

C18_Witness_UpdatedAndUntouched ==
    /\ IngestedDone
    /\ \E id \in DOMAIN memories[run.agent] :
          /\ Len(HistoryOf(run.agent, id)) = 1
          /\ memories[run.agent][id].q_value = 560
    /\ \E id \in DOMAIN memories[run.agent] :
          /\ HistoryOf(run.agent, id) = <<>>
          /\ memories[run.agent][id].q_value = 500

\* C19: in every step of any sequence of wake, sleep, status and search
\* commands, every memory stays in its namespace and its recall_count does
\* not decrease.
C19_RecallCountNeverDecreases ==
    [][\A agent \in AGENT_SCHEMAS :
          \A id \in DOMAIN memories[agent] :
              /\ id \in DOMAIN memories'[agent]
              /\ memories'[agent][id].recall_count
                    >= memories[agent][id].recall_count]_vars

\* A search has listed a memory that a wake before it had recalled, and
\* the count of the wake is still there
C19_Witness_SearchKeepsCount ==
    /\ pc = "idle" /\ run.cmd = "search"
    /\ \E id \in run.recalled : memories[run.agent][id].recall_count = 1

\* C20: in every step, a memory that exists keeps its type or goes from
\* active to core or from active to archive, and a memory the step creates
\* is active.
C20_TypeMovesOnlyFromActive ==
    [][\A agent \in AGENT_SCHEMAS :
          \A id \in DOMAIN memories'[agent] :
              IF id \in DOMAIN memories[agent]
              THEN \/ memories'[agent][id].type = memories[agent][id].type
                   \/ /\ memories[agent][id].type = "active"
                      /\ memories'[agent][id].type \in {"core", "archive"}
              ELSE memories'[agent][id].type = "active"]_vars

\* A sleep has created active memories while its maintenance promoted the
\* lesson recalled three times and archived the fact that faded, next to a
\* core and an archived memory that kept their type
C20_Witness_PromotedAndArchived ==
    /\ IngestedDone
    /\ LET rows == memories[run.agent]
       IN  /\ \E id \in DOMAIN rows :
                 rows[id].type = "core" /\ rows[id].recall_count = 3
           /\ \E id \in DOMAIN rows :
                 rows[id].type = "archive" /\ rows[id].text = "port"
           /\ \E id \in DOMAIN rows :
                 rows[id].type = "core" /\ rows[id].recall_count = 5
           /\ \E id \in run.created : rows[id].type = "active"

\* C16: a wake's write of .wake_retrieved_ids never falls between a sleep's
\* read of that slot and the sleep's clearing of it: no wake of the
\* namespace writes the slot while a sleep of the namespace holds the ids
\* it has read and has not yet cleared the slot.
C16_WakeWriteOutsideSleepWindow ==
    [][(pc.wake = "kv_set" /\ pc'.wake = "idle")
          => pc.sleep \notin {"q_update", "kv_clear"}]_vars

-----------------------------------------------------------------------------
(* C21..C30                                                                *)

\* The preamble holds a line of section sec
HasSection(lines, sec) == \E i \in DOMAIN lines : lines[i].sec = sec

\* A wake of `agent` starts and ends in this step
WakeOf(agent) == WakeStep /\ run'.agent = agent

WAKE_ORDER ==
    <<"recent", "core", "lesson", "q_values", "shared", "narrative", "goals",
      "stats">>

\* The eight sections with the SHARED memories after the two paragraphs
STATED_ORDER ==
    <<"recent", "core", "lesson", "q_values", "narrative", "goals", "shared",
      "stats">>

\* The place of a section in an order (0: not one of its sections)
PlaceIn(order, sec) ==
    IF \E k \in DOMAIN order : order[k] = sec
    THEN CHOOSE k \in DOMAIN order : order[k] = sec
    ELSE 0

\* The sections of the lines up to the stats footer come in this order
InOrder(lines, order) ==
    \A i, j \in DOMAIN lines :
        (i < j /\ HasSection(lines, "stats")
               /\ PlaceIn(order, lines[i].sec) > 0
               /\ PlaceIn(order, lines[j].sec) > 0)
            => PlaceIn(order, lines[i].sec) <= PlaceIn(order, lines[j].sec)

\* The last command was a wake on a namespace with memories
WokeFilled == pc = "idle" /\ run.cmd = "wake" /\ run.path # "empty"

SearchDone == pc = "idle" /\ run.cmd = "search"

\* The last command was a search that printed re-ranked results
Reranked == SearchDone /\ run.path = "reranked"

\* The ids of the lines, in order
IdsOf(lines) == <<>> \o [i \in DOMAIN lines |-> lines[i].id]

\* The lines come by non-increasing score
ByScore(lines) ==
    \A i, j \in DOMAIN lines : i < j => lines[i].score >= lines[j].score

\* The similarity of a printed memory to the query: 1 - distance for a
\* memory of the semantic search, the rank for one of the full-text search
SimilarityOf(id) ==
    LET r == CHOOSE r \in SeqToSet(run.search.results) : r.id = id
    IN  IF r.semantic THEN 1000 - r.distance ELSE r.sim

\* C23: a search prints at most 8 results, no memory twice, a memory found
\* by both searches with its semantic similarity, in the order of
\* non-increasing composite score (1 - lambda) * similarity + lambda * q_value.
C23_TopEightByCompositeScore ==
    Reranked =>
        /\ Len(preamble) <= 8
        /\ \A i, j \in DOMAIN preamble :
              i # j => preamble[i].id # preamble[j].id
        /\ \A i, j \in DOMAIN preamble :
              i < j =>
                  composite_score(SimilarityOf(preamble[i].id), preamble[i].q,
                                  run.search.lam)
                  >= composite_score(SimilarityOf(preamble[j].id), preamble[j].q,
                                     run.search.lam)

C25_FullTextWhenNoEmbedding ==
    (SearchDone /\ run.search.embedding \in {"none", "raises"}) =>
        /\ exit_status = 0
        /\ HasSection(preamble, "no_memories_found") <=> run.search.ft_rows = <<>>
        /\ run.search.ft_rows # <<>> =>
              /\ SeqToSet(IdsOf(preamble)) = SeqToSet(run.search.ft_rows)
              /\ Len(preamble) = Len(run.search.ft_rows)
              /\ ByScore(preamble)

\* The semantic search raised and several full-text matches were printed
C25_Witness_RaisedFullTextPrinted ==
    /\ SearchDone /\ run.search.embedding = "raises"
    /\ Len(preamble) >= 2
    /\ \A i \in DOMAIN preamble : preamble[i].sec = "result"

\* C26: a sleep whose transcript path does not exist ends with a non-zero
\* exit status and writes nothing: no session is started and no memory,
\* co-occurrence, Q-value, KV slot, SHARED row or registry entry changes.
C26_MissingTranscriptWritesNothing ==
    [][(pc = "idle" /\ run'.cmd = "sleep" /\ run'.path = "no_transcript") =>
          /\ pc' = "idle"
          /\ exit_status' # 0
          /\ run'.session_id = 0
          /\ UNCHANGED <<storeVars, shared>>]_vars

\* A sleep without transcript failed on a namespace an earlier sleep filled
C26_Witness_FailedOnFilledNamespace ==
    /\ pc = "idle" /\ run.cmd = "sleep" /\ run.path = "no_transcript"
    /\ exit_status = 1
    /\ memories[run.agent] # <<>>
    /\ \A i \in DOMAIN sessions[run.agent] : sessions[run.agent][i].ended_at # 0

\* The parsed items in the order of the three loops: kind and text of each
ParsedItems(parsed) ==
    [i \in 1..Len(parsed.threads) |->
        [kind |-> "thread", text |-> parsed.threads[i].summary]]
    \o [i \in 1..Len(parsed.lessons) |-> [kind |-> "lesson", text |-> parsed.lessons[i]]]
    \o [i \in 1..Len(parsed.facts) |-> [kind |-> "fact", text |-> parsed.facts[i]]]

\* The attributes fixed for the memory of a parsed item
StatedAttributes(row) ==
    /\ row.type = "active"
    /\ row.freshness = 1000
    /\ CASE row.kind = "thread" ->
               /\ row.tags = {"session-summary", "thread", SessionTag,
                              "thread-" \o row.status}
               /\ row.status = "completed" => row.emotional_weight = 650
               /\ row.status = "blocked" => row.emotional_weight = 300
               /\ row.status = "in-progress" => row.emotional_weight = 500
               /\ row.importance = 500
         [] row.kind = "lesson" ->
               /\ row.tags = {"session-summary", "lesson", SessionTag, "heuristic"}
               /\ row.emotional_weight = 600
               /\ row.importance = 600
         [] row.kind = "fact" ->
               /\ row.tags = {"session-summary", "key-fact", SessionTag, "procedural"}
               /\ row.emotional_weight = 500
               /\ row.importance = 500
         [] OTHER -> FALSE

\* C27: an ingest that succeeds creates exactly one memory per parsed item
\* (each step of the store phase adds at most one row and changes no other),
\* active, of freshness 1.0, with the tags, emotional weight and importance
\* fixed for a thread, a lesson or a fact.
C27_OneActiveMemoryPerItem ==
    [][pc = "store" =>
          LET agent == run.agent
              before == memories[agent]
              after == memories'[agent]
              ids == run'.stored_ids
              items == ParsedItems(run.parsed)
          IN  /\ Len(after) <= Len(before) + 1
              /\ \A i \in DOMAIN before : after[i] = before[i]
              /\ \A a \in AGENT_SCHEMAS \ {agent} : memories'[a] = memories[a]
              /\ pc' = "link" =>
                    /\ Len(ids) = Len(items)
                    /\ Cardinality(SeqToSet(ids)) = Len(ids)
                    /\ SeqToSet(ids) = run'.created
                    /\ \A k \in DOMAIN ids :
                          /\ after[ids[k]].kind = items[k].kind
                          /\ after[ids[k]].text = items[k].text
                          /\ StatedAttributes(after[ids[k]])]_vars

\* Two threads, a lesson and a fact were stored beside older memories
C27_Witness_FourStoredBesideOlder ==
    /\ pc = "link" /\ run.cmd = "sleep"
    /\ Len(run.stored_ids) = 4
    /\ Len(memories[run.agent]) > 4
    /\ \E id \in run.created : memories[run.agent][id].status = "blocked"

\* The memories this sleep created that have no vector
Unembedded == {id \in run.created : ~memories[run.agent][id].embedded}

\* C28: when the embedding of an inserted memory fails, the memory stays
\* stored without a vector and the sleep goes on: the remaining items are
\* inserted, the co-occurrence rows join all new ids, the unembedded one
\* included, and the later phases run.
C28_EmbeddingFailureKeepsIngest ==
    [][/\ (pc = "store" /\ memories' # memories
              /\ ~memories'[run.agent][Len(memories'[run.agent])].embedded) =>
              /\ run'.path = "running"
              /\ exit_status' = exit_status
              /\ pc' = IF run'.todo # <<>> THEN "store" ELSE "link"
       /\ (pc = "link" /\ Unembedded # {}) =>
              /\ Len(run.stored_ids) = NumItems(run.parsed)
              /\ run'.link = "ok" =>
                    \A a, b \in run.created :
                        a # b => \E r \in co_occurrences'[run.agent] :
                                     r.memory_id = a /\ r.other_id = b
              /\ pc' = "share"
       /\ (pc = "finalize" /\ Unembedded # {} /\ run.failed = {}) =>
              /\ run'.phases = <<"store", "share", "qvalue", "affect", "kg",
                                 "lessons", "goals", "decay", "finalize">>
              /\ Unembedded' = Unembedded]_vars

\* A sleep went through all its phases although the second of its four
\* memories has no vector
C28_Witness_IngestedWithUnembedded ==
    /\ IngestedDone
    /\ exit_status = 0
    /\ Len(run.stored_ids) = 4
    /\ Unembedded = {run.stored_ids[2]}
    /\ \E r \in co_occurrences[run.agent] :
          r.memory_id = run.stored_ids[2] /\ r.other_id = run.stored_ids[4]

\* The tables of the namespace of agent b
NamespaceOf(b) ==
    <<memories[b], co_occurrences[b], kv[b], q_value_history[b], sessions[b]>>

\* C29: no step of a wake, sleep, status or search of one agent changes a
\* table in the namespace of another agent; what a command writes outside
\* its agent's namespace goes to the SHARED tables.
C29_OtherNamespacesUntouched ==
    [][\A b \in AGENT_SCHEMAS \ {run'.agent} : NamespaceOf(b)' = NamespaceOf(b)]_vars

\* After a sleep of each run agent, one of them shared a memory and woke:
\* the other namespace holds memories none of which was recalled
C29_Witness_TwoFilledNamespaces ==
    /\ pc = "idle" /\ run.cmd = "wake" /\ run.recalled # {}
    /\ \E i \in DOMAIN shared : shared[i].created_by = run.agent
    /\ \E b \in RunAgents \ {run.agent} :
          /\ memories[b] # <<>>
          /\ \A id \in DOMAIN memories[b] : memories[b][id].recall_count = 0
          /\ kv[b] = KvNone

\* C30: every completion the runtime appends to done.jsonl is eventually
\* posted to Discord, however the appends interleave with the poll.
C30_EveryCompletionPosted ==
    \A c \in 1..MaxCompletions :
        (bot.appended >= c) ~> (c \in bot.posted)

-----------------------------------------------------------------------------
(* C31..C40                                                                *)

\* on_message handles a message in this step
MessageStep == bot'.msgs = bot.msgs + 1

\* The aliases the stripped lowercase content starts with, followed by ':'
\* or ','
PrefixesOf(content) ==
    LET lower == Lower(Strip(content))
    IN  {i \in DOMAIN ALIASES :
            \E sep \in {":", ","} : StartsWith(lower, ALIASES[i][1] \o <<sep>>)}

\* The agents whose name is in the lowercase channel name
NamedIn(chan) ==
    LET lower == Lower(chan)
    IN  {a \in AGENT_SCHEMAS : Contains(AgentChars[a], lower)}

\* The message resolves to an agent and has a task: what follows the prefix
\* and its separator, or the whole content when the channel names the agent
HasAgentAndTask(content, chan) ==
    LET prefixes == PrefixesOf(content)
    IN  IF prefixes # {}
        THEN \E i \in prefixes :
                Strip(PySuffix(Strip(content), Len(ALIASES[i][1]) + 1)) # <<>>
        ELSE NamedIn(chan) # {} /\ Strip(content) # <<>>

\* The queues that are longer after the step
Grown == {a \in AGENT_SCHEMAS : bot'.queue[a] # bot.queue[a]}

\* C31: on_message appends a task entry to a queue exactly when the message
\* is from a non-bot author, comes from an allowed channel, resolves to an
\* agent (by 'alias:' / 'alias,' prefix or by channel name) and has a
\* non-empty task; an 'all' prefix appends exactly one entry to each of the
\* four queues, any other route to exactly one queue; the lines a queue held
\* before stay as they were.
C31_AppendsExactlyWhenRouted ==
    [][MessageStep =>
          LET m == bot'.last
              content == MESSAGES[m.content]
              should == /\ ~m.from_bot
                        /\ bot.allowed = {} \/ m.channel_id \in bot.allowed
                        /\ HasAgentAndTask(content, CHANNELS[m.chan])
              to_all == \E i \in PrefixesOf(content) : ALIASES[i][2] = "all"
          IN  /\ Grown # {} <=> should
              /\ \A a \in AGENT_SCHEMAS :
                    /\ Len(bot'.queue[a]) \in {Len(bot.queue[a]), Len(bot.queue[a]) + 1}
                    /\ SubSeq(bot'.queue[a], 1, Len(bot.queue[a])) = bot.queue[a]
              /\ (should /\ to_all) => Grown = AGENT_SCHEMAS
              /\ (should /\ ~to_all) => Cardinality(Grown) = 1]_vars

\* An 'all:' message was queued for the four agents after a 'Max, ' message
\* had been queued for max alone
C31_Witness_AllAfterOne ==
    /\ bot.msgs = 2
    /\ bot.last.content = "allhi" /\ bot.last.end = "queued"
    /\ Len(bot.queue["max"]) = 2
    /\ bot.queue["max"][1].task = <<"g","o">>
    /\ \A a \in AGENT_SCHEMAS \ {"max"} :
          Len(bot.queue[a]) = 1 /\ bot.queue[a][1].task = <<"h","i">>

\* The verdict, voting and analysis wording: the phrases of the opinion
\* vocabulary that are not part of the name of a namespace
OPINION_WORDING ==
    {kw \in DEBATE_OPINION_KEYWORDS :
        ~\E a \in AGENT_SCHEMAS : Contains(kw, AgentChars[a])}

\* The lowercase text mentions a namespace other than the sharing agent's, and
\* holds no whitelist keyword and no verdict, voting or analysis wording
MentionsOnly(agent, text) ==
    /\ \E a \in AGENT_SCHEMAS \ {agent} : Contains(AgentChars[a], text)
    /\ ~\E kw \in SHARED_KEYWORDS : Contains(kw, text)
    /\ ~\E kw \in OPINION_WORDING : Contains(kw, text)

\* C32: when _cross_pollinate has run without a failure, every thread and
\* every fact of its record whose text mentions another known namespace
\* (max, beth, susan, debater), with no whitelist keyword and no verdict,
\* voting or analysis wording, has a row in SHARED.
C32_MentionOfOtherAgentShared ==
    (run.cmd = "cross_pollinate" /\ nfaults = 0) =>
        /\ \A i \in DOMAIN run.parsed.threads :
              MentionsOnly(run.agent, ThreadCheckText(run.parsed.threads[i]))
                  => \E k \in DOMAIN shared :
                        shared[k] = SharedRow(run.agent,
                                              ThreadItem(run.parsed.threads[i]))
        /\ \A i \in DOMAIN run.parsed.facts :
              MentionsOnly(run.agent, Lower(TEXT[run.parsed.facts[i]]))
                  => \E k \in DOMAIN shared :
                        shared[k] = SharedRow(run.agent,
                                              FactItem(run.parsed.facts[i]))

\* The text of the transcript before it is sampled
ExtractedText(lines) ==
    IF IsJsonl(lines) THEN Join(<<"\n">>, JsonlTexts(lines))
    ELSE Join(<<"\n">>, Meaningful(lines))

\* The positions (1 .. n) of the characters the slice [lo:hi] takes of a text
\* of n characters, in order
SlicePositions(n, lo, hi) ==
    LET a == SliceBound(lo, n)
        b == SliceBound(hi, n)
    IN  IF b <= a THEN <<>> ELSE <<>> \o [i \in 1..(b - a) |-> a + i]

\* The positions of the start, middle and end segments of the sample of a
\* text of n characters: text[:chunk * 2], text[mid_point - chunk:mid_point +
\* chunk] and text[-chunk * 2:]
SegmentPositions(n, max_chars) ==
    LET chunk == max_chars \div 5
        mid_point == n \div 2
    IN  << SlicePositions(n, 0, chunk * 2),
           SlicePositions(n, mid_point - chunk, mid_point + chunk),
           SlicePositions(n, -(chunk * 2), n) >>

\* The characters of the text at the positions
Selection(text, positions) ==
    <<>> \o [i \in DOMAIN positions |-> text[positions[i]]]

\* The markers of the path the extractor took
SampleMarkers(lines) ==
    IF IsJsonl(lines) THEN <<MARKER_JSONL, MARKER_JSONL>>
    ELSE <<MARKER_MIDDLE, MARKER_LATER>>

\* C33: when the extractor samples a text longer than max_chars, its output
\* is the start, middle and end segments of the text between the two
\* elision markers, and the positions of the three segments, one after the
\* other, increase strictly: no position of the text occurs twice and the
\* segments come in the order of the text.
C33_SampleSegmentsDisjoint ==
    (ex.done /\ ExtractedLen(ex.lines) > ex.max_chars) =>
        LET text == ExtractedText(ex.lines)
            seg == SegmentPositions(Len(text), ex.max_chars)
            all == seg[1] \o seg[2] \o seg[3]
            markers == SampleMarkers(ex.lines)
        IN  /\ ex.output = Selection(text, seg[1]) \o markers[1]
                            \o Selection(text, seg[2]) \o markers[2]
                            \o Selection(text, seg[3])
            /\ \A i, j \in DOMAIN all : i < j => all[i] < all[j]

\* The co-occurrence rows of a namespace that the step wrote: new rows and
\* rows whose count changed
RowsWritten(agent) == co_occurrences'[agent] \ co_occurrences[agent]

\* C34: within one sleep, co-occurrence rows are written only after every
\* parsed item has been inserted and its embedding attempted: a step that
\* writes a row is the linking step of a sleep with nothing left to insert,
\* it writes rows of the sleeping agent's namespace only, and both memories
\* each row names are memories of that namespace already, inserted by this
\* sleep.
C34_LinkAfterAllInserts ==
    [][co_occurrences' # co_occurrences =>
          /\ pc = "link" /\ run.cmd = "sleep"
          /\ run.todo = <<>>
          /\ Len(run.stored_ids) = NumItems(run.parsed)
          /\ memories' = memories
          /\ \A a \in AGENT_SCHEMAS \ {run.agent} : RowsWritten(a) = {}
          /\ \A r \in RowsWritten(run.agent) :
                /\ r.memory_id \in DOMAIN memories[run.agent]
                /\ r.other_id \in DOMAIN memories[run.agent]
                /\ {r.memory_id, r.other_id} \subseteq run.created]_vars

\* The memories of a sleep were linked next to older memories, one of them
\* being a memory whose embedding had failed
C34_Witness_LinkedWithOlder ==
    /\ pc = "share" /\ run.cmd = "sleep" /\ run.link = "ok"
    /\ Len(run.stored_ids) = 2
    /\ Len(memories[run.agent]) > 2
    /\ \E id \in run.created : ~memories[run.agent][id].embedded
    /\ \E r \in co_occurrences[run.agent] :
          r.memory_id = run.stored_ids[2] /\ r.other_id = run.stored_ids[1]

\* The time of the latest sleep of the namespace that has written Q-value
\* history (0: none has): the start of the session its rows name
LastCreditTime(agent) ==
    LET hist == q_value_history[agent]
        times == {sessions[agent][hist[i].session_id].started_at :
                     i \in {j \in DOMAIN hist : hist[j].session_id # 0}}
    IN  IF times = {} THEN 0 ELSE CHOOSE t \in times : \A u \in times : t >= u

\* C35: the id list a wake persisted is used for Q-value credit by at most
\* one sleep: whenever a sleep applies Q updates, the list it read from the
\* KV slot was persisted by a wake later than every sleep that has applied
\* Q updates before, also when such a sleep could not clear the slot.
C35_ListCreditedOnce ==
    [][\A agent \in AGENT_SCHEMAS :
          q_value_history'[agent] # q_value_history[agent]
              => kv[agent].timestamp > LastCreditTime(agent)]_vars

\* C36: after a wake of a non-empty namespace that wrote the slot, the slot
\* holds the ids of that wake and no id of an earlier wake; the sleep that
\* follows finds that list (kv_before) and the Q update rewards exactly its
\* ids, whatever recall counters earlier wakes have raised.
CreditedIds(agent) ==
    {q_value_history'[agent][i].memory_id :
        i \in (Len(q_value_history[agent]) + 1)..Len(q_value_history'[agent])}

C36_SlotHoldsLastWakeOnly ==
    /\ [](run.cmd = "wake" /\ run.path = "ok"
             => kv[run.agent].ids = run.recalled)
    /\ [][/\ (run.cmd = "wake" /\ run'.cmd = "sleep" /\ run'.after_wake)
              => run'.kv_before = run.recalled
          /\ \A agent \in AGENT_SCHEMAS :
                (q_value_history'[agent] # q_value_history[agent] /\ run.after_wake)
                    => CreditedIds(agent) = run.kv_before]_vars

\* A sleep after two wakes has rewarded the ids of the last wake; memory 1,
\* recalled by the earlier wake only, has its recall counted and no reward
C36_Witness_EarlierWakeNotCredited ==
    /\ run.cmd = "sleep" /\ run.agent = "max" /\ run.after_wake
    /\ run.recalled = {2, 3, 4}
    /\ Len(q_value_history["max"]) = 3
    /\ memories["max"][1].recall_count = 1
    /\ memories["max"][1].q_value = DEFAULT_Q
    /\ memories["max"][2].recall_count = 2
    /\ memories["max"][2].q_value # DEFAULT_Q

\* C37: when db.insert_memory raises during the parsed ingest, sleep ends
\* there with the error (exit status 1): the memories inserted before it stay
\* in the namespace as they were stored, no co-occurrence row names them, no
\* phase after the store is entered (share, Q update, affect, KG, lessons,
\* goals, decay), the slot and the Q-values the sleep found are untouched,
\* the session stays open and the registry keeps its earlier time.
C37_InsertFailureAbortsSleep ==
    (run.cmd = "sleep" /\ run.path = "crashed" /\ run.todo # <<>>)
        => LET agent == run.agent
               rows == memories[agent]
               items == ItemsToStore(run.parsed)
           IN  /\ pc = "idle"
               /\ exit_status = 1
               /\ run.phases = <<"store">>
               /\ Len(run.stored_ids) + Len(run.todo) = Len(items)
               /\ \A k \in DOMAIN run.stored_ids :
                     /\ run.stored_ids[k] \in DOMAIN rows
                     /\ [rows[run.stored_ids[k]] EXCEPT !.embedded = FALSE] = items[k]
               /\ \A r \in co_occurrences[agent] :
                     /\ r.memory_id \notin run.created
                     /\ r.other_id \notin run.created
               /\ kv[agent].ids = run.kv_before
               /\ \A id \in run.kv_before :
                     QValueOf(rows, id) = run.q_before[id]
               /\ run.session_id # 0 =>
                     /\ \A i \in DOMAIN q_value_history[agent] :
                           q_value_history[agent][i].session_id # run.session_id
                     /\ sessions[agent][run.session_id].ended_at = 0
               /\ agent_registry[agent] < clock

\* The second insert of a sleep has failed after the first was stored, in a
\* namespace whose last wake left ids to reward
C37_Witness_SecondInsertFailed ==
    /\ run.cmd = "sleep" /\ run.path = "crashed"
    /\ Len(run.stored_ids) = 1 /\ run.todo # <<>>
    /\ run.kv_before # {} /\ run.session_id # 0
    /\ Len(memories[run.agent]) >= 2

C39_PostedAtMostOnce ==
    [][bot'.sent = bot.sent + 1
          => bot.entries[bot.sent + 1] \notin bot.posted]_vars

\* C40: every result of the semantic search carries the similarity
\* 1 - distance, a result at distance 0 the similarity 1; and in the printed
\* list a semantic result at distance 0 never comes after a semantic result
\* of positive distance that has the same Q-value.
C40_DistanceZeroIsSimilarityOne ==
    Reranked =>
        LET results == SeqToSet(run.search.results)
            found(id) == CHOOSE r \in results : r.id = id
        IN  /\ \A r \in results : r.semantic => r.sim = 1000 - r.distance
            /\ \A i, j \in DOMAIN preamble :
                  (/\ found(preamble[i].id).semantic
                   /\ found(preamble[i].id).distance = 0
                   /\ found(preamble[j].id).semantic
                   /\ found(preamble[j].id).distance > 0
                   /\ preamble[i].q = preamble[j].q)
                      => i < j

====
